---- MODULE Spec2Model ----
(***************************************************************************)
(* Lead-generation pipeline (kodjooo/lead-generation): the send scheduler  *)
(* and sender, the outreach and schedule batch steps of the orchestrator,  *)
(* and the deferred-search client with its rate limits and night window.   *)
(*                                                                         *)
(* Times are whole seconds.  A stored timestamp is UTC; the configured     *)
(* timezone is a fixed offset from UTC (Europe/Moscow has no DST).         *)
(* Text (e-mail addresses) is a sequence of one-character strings, so that *)
(* cleaning, lower-casing and validation are computed, not assumed.        *)
(***************************************************************************)
EXTENDS Integers, Sequences, FiniteSets, TLC

VARIABLES
    \* --- the outreach store and the sender (send_email.py) ---
    outreach,        \* outreach_messages, committed rows; a row's id is its index
    optOut,          \* opt_out_registry.contact_value, externally maintained
    sendingEnabled,  \* settings.email_sending_enabled, fixed at construction
    chanCfg,         \* which SMTP channels have a host: [gmail, yandex]
    smtpLog,         \* by outreach id: how often the SMTP transport accepted it
    lastCall,        \* the last event: a call and what it returned, or a registry change
    \* --- concurrent batch transactions (orchestrator.py) ---
    tx,              \* per process: the open session of its batch step
    contacts,        \* contacts of type email, by contact id: the raw value, or
                     \* the whole row where the enricher writes it
    \* --- the schedule step (orchestrator.py) ---
    queries,         \* serp_queries.status, by query id
    operations,      \* serp_operations, committed rows
    stx,             \* per process: the open session of its schedule step
    submitted,       \* create_deferred_search calls the API accepted, by query id
    \* --- the deferred-search client (yandex_deferred.py) ---
    enforceNightWindow, \* YandexDeferredClient.enforce_night_window
    clock,           \* the client's clock, UTC seconds
    createEvents,    \* _create_limits: one event queue per rule
    statusEvents,    \* _status_limits: one event queue per rule
    httpLog,         \* every HTTP request issued: [endpoint, at]
    clientCall,      \* the last client call and what it returned
    \* --- the MX router (mx_router.py) ---
    mxEnabled,       \* settings.enabled (ROUTING_ENABLED), fixed at construction
    mxCache,         \* TTLCache._store in LRU order, least recently used first
    mxClock,         \* time.time(), whole seconds
    mxCall,          \* the last classify call and what it returned
    mxHist,          \* classify calls so far, and the last resolution through DNS
    \* --- the deduplicator (deduplicate.py) ---
    companies,       \* the companies table; a row's id is its index
    dedupCall,       \* the last DeduplicationService.run and the table it found
    \* --- the batch stages of a tick (orchestrator.py) ---
    stageRows,       \* by stage: the state of each row the stage works on
    tickCall,        \* the last stage run and how it ended
    \* --- the rest of the pipeline (orchestrator.py, serp_ingest.py, ...) ---
    wall,            \* the wall clock of the loop processes, UTC seconds
    serpResults,     \* the serp_results table
    ingestCall,      \* the last ingest or poll call, and what was ingested so far
    fnCall           \* the last call of a component that keeps no state, and its answer

senderVars == <<outreach, optOut, sendingEnabled, chanCfg, smtpLog, lastCall>>
batchVars  == <<tx, contacts>>
schedVars  == <<queries, operations, stx, submitted>>
clientVars == <<enforceNightWindow, clock, createEvents, statusEvents, httpLog, clientCall>>
routerVars == <<mxEnabled, mxCache, mxClock, mxCall, mxHist>>
dedupVars  == <<companies, dedupCall>>
tickVars   == <<stageRows, tickCall>>
pipeVars   == <<wall, serpResults, ingestCall, fnCall>>
restVars   == <<routerVars, dedupVars, tickVars, pipeVars>>
vars == <<senderVars, batchVars, schedVars, clientVars, restVars>>

\* Python None / SQL NULL in a timestamp column.
Null == -1
\* Python None / SQL NULL in a text column (text is a sequence of characters).
None == <<"None">>

----------------------------------------------------------------------------
(* Text helpers: str methods on sequences of characters.                   *)

UpperLetters == <<"A","B","C","D","E","F","G","H","I","J","K","L","M",
                  "N","O","P","Q","R","S","T","U","V","W","X","Y","Z">>
LowerLetters == <<"a","b","c","d","e","f","g","h","i","j","k","l","m",
                  "n","o","p","q","r","s","t","u","v","w","x","y","z">>
Digits == {"0","1","2","3","4","5","6","7","8","9"}

Range(s) == {s[i] : i \in 1..Len(s)}

\* str.lower() on one character
LowerChar(c) ==
    IF \E i \in 1..26 : UpperLetters[i] = c
    THEN LowerLetters[CHOOSE i \in 1..26 : UpperLetters[i] = c]
    ELSE c

\* str.lower()
Lower(s) == [i \in 1..Len(s) |-> LowerChar(s[i])]

\* index of the first occurrence of character c in s, 0 when absent
IndexOf(s, c) ==
    IF \E i \in 1..Len(s) : s[i] = c
    THEN CHOOSE i \in 1..Len(s) : s[i] = c /\ \A j \in 1..(i-1) : s[j] # c
    ELSE 0

\* str.startswith(prefix)
StartsWith(s, prefix) ==
    /\ Len(s) >= Len(prefix)
    /\ SubSeq(s, 1, Len(prefix)) = prefix

\* str.strip(chars)
RECURSIVE LStrip(_, _)
LStrip(s, chars) ==
    IF s # <<>> /\ Head(s) \in chars THEN LStrip(Tail(s), chars) ELSE s
RECURSIVE RStrip(_, _)
RStrip(s, chars) ==
    IF s # <<>> /\ s[Len(s)] \in chars THEN RStrip(SubSeq(s, 1, Len(s)-1), chars) ELSE s
Strip(s, chars) == RStrip(LStrip(s, chars), chars)

\* str.replace(c, "")
Remove(s, c) == SelectSeq(s, LAMBDA x : x # c)

Whitespace == {" "}
\* STRIP_CHARS: angle, square and round brackets, quotes, whitespace
STRIP_CHARS == {"<", ">", "[", "]", "(", ")", "'", " "}
MailtoPrefix == <<"m","a","i","l","t","o",":">>

\* email.utils.parseaddr(raw)[1] for the two forms the pipeline meets:
\* "Display Name <addr>" gives addr, a bare address gives itself.
ParseAddr(raw) ==
    LET lt == IndexOf(raw, "<")
        gt == IndexOf(raw, ">")
    IN IF lt > 0 /\ gt > lt THEN SubSeq(raw, lt + 1, gt - 1) ELSE raw

\* clean_email(value), computed; each statement of the function is one
\* operator applied to the value of raw or candidate before it
\* raw.split(":", 1)[1] when raw.lower() starts with "mailto:"
DropMailto(raw) ==
    IF StartsWith(Lower(raw), MailtoPrefix)
    THEN SubSeq(raw, IndexOf(raw, ":") + 1, Len(raw))
    ELSE raw
\* raw.split("?", 1)[0] when "?" is in raw
DropQuery(raw) ==
    IF IndexOf(raw, "?") > 0 THEN SubSeq(raw, 1, IndexOf(raw, "?") - 1) ELSE raw
\* candidate = parsed or raw
ParsedOrRaw(parsed, raw) == IF parsed # <<>> THEN parsed ELSE raw
\* candidate.strip(STRIP_CHARS).replace(" ", "").lower()
CleanCandidate(candidate) == Lower(Remove(Strip(candidate, STRIP_CHARS), " "))
\* the function from "_, parsed = parseaddr(raw)" on
CleanParsed(raw) == CleanCandidate(ParsedOrRaw(ParseAddr(raw), raw))
\* the function after raw = (value or "").strip()
CleanStripped(raw) ==
    IF raw = <<>> THEN <<>> ELSE CleanParsed(DropQuery(DropMailto(raw)))
CleanEmailOf(value) == CleanStripped(Strip(value, Whitespace))

AlnumChars == Range(LowerLetters) \cup Range(UpperLetters) \cup Digits
\* the local-part class of EMAIL_REGEX (the backquote left out: no sample
\* address uses it)
LocalChars == AlnumChars \cup {".", "!", "#", "$", "%", "&", "'", "*", "+", "/",
                               "=", "?", "^", "_", "{", "|", "}", "~", "-"}

\* one domain label of EMAIL_REGEX: alphanumeric ends, hyphens inside, at most 63
IsLabel(l) ==
    /\ Len(l) >= 1
    /\ Len(l) <= 63
    /\ l[1] \in AlnumChars
    /\ l[Len(l)] \in AlnumChars
    /\ \A i \in 1..Len(l) : l[i] \in AlnumChars \cup {"-"}

\* the domain part of EMAIL_REGEX: two or more labels joined by dots
RECURSIVE IsDottedLabels(_, _)
IsDottedLabels(d, seenDot) ==
    LET dot == IndexOf(d, ".")
    IN IF dot = 0
       THEN seenDot /\ IsLabel(d)
       ELSE /\ IsLabel(SubSeq(d, 1, dot - 1))
            /\ IsDottedLabels(SubSeq(d, dot + 1, Len(d)), TRUE)

\* EMAIL_REGEX.match(candidate), given the index of the first "@"
EmailRegexMatch(candidate, at) ==
    /\ at > 1
    /\ \A i \in 1..(at - 1) : candidate[i] \in LocalChars
    /\ IsDottedLabels(SubSeq(candidate, at + 1, Len(candidate)), FALSE)

\* is_valid_email after candidate = clean_email(value)
IsValidCandidate(candidate) ==
    /\ candidate # <<>>
    /\ IndexOf(candidate, "@") > 0
    /\ EmailRegexMatch(candidate, IndexOf(candidate, "@"))

\* is_valid_email(value), computed
IsValidEmailOf(value) == IsValidCandidate(CleanEmailOf(value))

\* The addresses of the model: "a@b.ru", a mailto link to the same mailbox in
\* capitals, "c@d.io" in the display-name form, and a value that is no address
AddrPlain == <<"a","@","b",".","r","u">>
AddrMailto == <<"m","a","i","l","t","o",":","A","@","B",".","r","u","?","s">>
AddrNamed == <<"N"," ","<","c","@","d",".","i","o",">">>
AddrBroken == <<"n","o","p","e">>
RawEmails == {AddrPlain, AddrMailto, AddrNamed, AddrBroken}

\* what the registry may hold: the first mailbox, as typed by two operators,
\* and the value that is no address
OptOutLower == <<"a","@","b",".","r","u">>
OptOutUpper == <<"A","@","B",".","R","U">>
OptOutValues == {OptOutLower, OptOutUpper, AddrBroken}

\* clean_email and is_valid_email are evaluated once per text of the model
KnownTexts ==
    LET once == RawEmails \cup OptOutValues \cup {CleanEmailOf(e) : e \in RawEmails}
    IN once \cup {CleanEmailOf(e) : e \in once}
CleanEmailTable == [t \in KnownTexts |-> CleanEmailOf(t)]
IsValidEmailTable == [t \in KnownTexts |-> IsValidEmailOf(t)]
LowerTable == [t \in KnownTexts |-> Lower(t)]

\* clean_email(value)
CleanEmail(value) == CleanEmailTable[value]
\* is_valid_email(value)
IsValidEmail(value) == IsValidEmailTable[value]
\* SQL LOWER(value)
SqlLower(value) == LowerTable[value]


----------------------------------------------------------------------------
(* Local time: datetime.astimezone, datetime.combine, date arithmetic.     *)

SecondsPerDay == 86400
\* APP_TIMEZONE defaults to Europe/Moscow: UTC+3 all year
TzOffsetSeconds == 10800

\* datetime.time(hour, minute) as seconds after local midnight
TimeOfDay(hour, minute) == hour * 3600 + minute * 60

SEND_WINDOW_START == TimeOfDay(9, 10)
SEND_WINDOW_END == TimeOfDay(19, 45)
MIN_SEND_DELAY_SECONDS == 9 * 60
MAX_SEND_DELAY_SECONDS == 16 * 60

\* dt.astimezone(self._tz): the local wall clock of a UTC instant
AsLocal(utc) == utc + TzOffsetSeconds
\* dt.astimezone(timezone.utc): the UTC instant of a local wall clock
AsUtc(local) == local - TzOffsetSeconds
\* dt.date(): the local day number
DateOf(local) == local \div SecondsPerDay
\* dt.time(): seconds after local midnight
WallClock(local) == local % SecondsPerDay
\* datetime.combine(date, time, tzinfo=self._tz)
Combine(date, timeOfDay) == date * SecondsPerDay + timeOfDay

\* EmailSender._is_within_send_window(local_dt)
IsWithinSendWindowNoStart(local) ==
    local <= Combine(DateOf(local), SEND_WINDOW_END)

IsWithinSendWindow(local) ==
    LET start == Combine(DateOf(local), SEND_WINDOW_START)
        end == Combine(DateOf(local), SEND_WINDOW_END)
    IN start <= local /\ local <= end

\* EmailSender._pick_time_within_window(anchor_local, delay_seconds); delay2 is
\* the second random.randint draw, made only when the first candidate rolls over
PickTimeNoRollover(anchor, delay, delay2) ==
    LET window_start == Combine(DateOf(anchor), SEND_WINDOW_START)
        window_end0 == Combine(DateOf(anchor), SEND_WINDOW_END)
        base == IF anchor < window_start THEN window_start
                ELSE IF anchor > window_end0
                     THEN Combine(DateOf(anchor) + 1, SEND_WINDOW_START)
                     ELSE anchor
    IN base + delay

PickTimeWithinWindow(anchor, delay, delay2) ==
    LET window_start == Combine(DateOf(anchor), SEND_WINDOW_START)
        window_end0 == Combine(DateOf(anchor), SEND_WINDOW_END)
        next_day0 == DateOf(anchor) + 1
        base == IF anchor < window_start THEN window_start
                ELSE IF anchor > window_end0
                     THEN Combine(next_day0, SEND_WINDOW_START)
                     ELSE anchor
        window_end == IF ~(anchor < window_start) /\ anchor > window_end0
                      THEN Combine(next_day0, SEND_WINDOW_END)
                      ELSE window_end0
        candidate == base + delay
        next_day == DateOf(base) + 1
    IN IF candidate > window_end
       THEN Combine(next_day, SEND_WINDOW_START) + delay2
       ELSE candidate

\* SELECT_LAST_SCHEDULED_SQL over the rows a session sees, skipping the rows
\* another session holds locked (FOR UPDATE SKIP LOCKED): the ids, latest first
LastScheduledId(rows, ids, locked) ==
    LET cand == {i \in ids : rows[i].scheduled_for # Null /\ i \notin locked}
    IN IF cand = {} THEN 0
       ELSE CHOOSE i \in cand :
              \A j \in cand : \/ rows[j].scheduled_for < rows[i].scheduled_for
                              \/ (rows[j].scheduled_for = rows[i].scheduled_for /\ j <= i)

\* EmailSender._compute_scheduled_for given what the SELECT returned
AnchorMutant(last_scheduled, now_utc) == AsLocal(now_utc)

Anchor(last_scheduled, now_utc) ==
    LET local_now == AsLocal(now_utc)
    IN IF last_scheduled # Null
       THEN (IF AsLocal(last_scheduled) > local_now
             THEN AsLocal(last_scheduled) ELSE local_now)
       ELSE local_now

ComputeScheduledFor(last_scheduled, now_utc, delay, delay2) ==
    AsUtc(PickTimeWithinWindow(Anchor(last_scheduled, now_utc), delay, delay2))

----------------------------------------------------------------------------
(* The outreach store: rows of outreach_messages and the statements on it. *)

Statuses == {"scheduled", "sent", "failed", "skipped", "disabled"}

INVALID_EMAIL == <<"i","n","v","a","l","i","d","_","e","m","a","i","l">>
OPT_OUT == <<"o","p","t","_","o","u","t">>

\* metadata || CAST(:metadata AS JSONB): a shallow merge, the new keys win
JsonMerge(old, new) ==
    [k \in (DOMAIN old) \cup (DOMAIN new) |->
        IF k \in DOMAIN new THEN new[k] ELSE old[k]]

\* INSERT_OUTREACH_SQL through EmailSender._persist_status: the new row
PersistStatus(contact_id, status, scheduled_for, sent_at, last_error, metadata) ==
    [contact |-> contact_id, status |-> status, scheduled_for |-> scheduled_for,
     sent_at |-> sent_at, last_error |-> last_error, metadata |-> metadata]

\* UPDATE_OUTREACH_SQL through EmailSender._update_status: the row after it.
\* The statement has no condition on the row's current status.
UpdateStatus(row, status, sent_at, last_error, metadata) ==
    [row EXCEPT !.status = status, !.sent_at = sent_at,
                !.last_error = last_error,
                !.metadata = JsonMerge(row.metadata, metadata)]

\* CHECK_OPT_OUT_SQL through EmailSender._is_opt_out
IsOptOutMutant(registry, to_email) == CleanEmail(to_email) \in registry

IsOptOut(registry, to_email) ==
    \E v \in registry : SqlLower(v) = SqlLower(CleanEmail(to_email))

\* metadata = {"to_email": normalized_email or to_email, "to_email_raw": to_email}
QueueMetadata(to_email, normalized_email) ==
    [to_email |-> IF normalized_email # <<>> THEN normalized_email ELSE to_email,
     to_email_raw |-> to_email]

\* EmailSender._queue_with_session after normalized_email = clean_email(to_email)
QueueNormalized(contact_id, to_email, normalized_email, scheduled_for, last_scheduled, now_utc, delay, delay2) ==
    IF ~IsValidEmail(normalized_email)
    THEN PersistStatus(contact_id, "skipped", Null, Null, INVALID_EMAIL,
                       JsonMerge(QueueMetadata(to_email, normalized_email),
                                 [reason |-> INVALID_EMAIL]))
    ELSE PersistStatus(contact_id, "scheduled",
                       IF scheduled_for # Null THEN scheduled_for
                       ELSE ComputeScheduledFor(last_scheduled, now_utc, delay, delay2),
                       Null, None, QueueMetadata(to_email, normalized_email))

\* EmailSender._queue_with_session: the row it inserts.  last_scheduled is what
\* SELECT_LAST_SCHEDULED_SQL returned in this session; scheduled_for is the
\* caller's argument (Null when not given).
QueueRow(contact_id, to_email, scheduled_for, last_scheduled, now_utc, delay, delay2) ==
    QueueNormalized(contact_id, to_email, CleanEmail(to_email), scheduled_for,
                    last_scheduled, now_utc, delay, delay2)

----------------------------------------------------------------------------
(* Delivery: routing, the SMTP attempt(s) and the status update.           *)

\* substring test: token in text
Contains(text, token) ==
    \E i \in 1..(Len(text) - Len(token) + 1) :
        SubSeq(text, i, i + Len(token) - 1) = token

\* spam_tokens of EmailSender._should_fallback_to_gmail
SpamTokens == {
    <<"5",".","7",".","1">>,
    <<"5",".","7",".","0">>,
    <<"s","u","s","p","e","c","t","e","d"," ","s","p","a","m">>,
    <<"s","u","s","p","i","c","i","o","n"," ","o","f"," ","s","p","a","m">>,
    <<"m","e","s","s","a","g","e"," ","r","e","j","e","c","t","e","d">>,
    <<"u","n","d","e","r"," ","s","u","s","p","i","c","i","o","n"," ","o","f"," ",
      "s","p","a","m">> }

\* What one SMTP conversation can end in.  kind: "ok", "auth"
\* (SMTPAuthenticationError), "response" (another SMTPResponseException),
\* "generic" (any other SMTPException); code and text are the server's answer.
SmtpOk == [kind |-> "ok", code |-> <<>>, text |-> <<>>]
SmtpSpam == [kind |-> "response", code |-> <<"5","5","0">>,
             text |-> <<"5",".","7",".","1"," ","M","e","s","s","a","g","e"," ",
                        "r","e","j","e","c","t","e","d">>]
SmtpBusy == [kind |-> "response", code |-> <<"4","5","1">>,
             text |-> <<"4",".","3",".","2"," ","b","u","s","y">>]
SmtpAuth == [kind |-> "auth", code |-> <<"5","3","5">>,
             text |-> <<"5",".","7",".","0"," ","d","e","n","i","e","d">>]
SmtpDrop == [kind |-> "generic", code |-> <<>>,
             text |-> <<"c","l","o","s","e","d">>]
SmtpNoHost == [kind |-> "generic", code |-> <<>>,
               text |-> <<"n","o"," ","h","o","s","t">>]
SmtpOutcomes == {SmtpOk, SmtpSpam, SmtpBusy, SmtpAuth, SmtpDrop}

\* str(exc): a response exception prints its code and its text
StrOf(exc) ==
    IF exc.kind \in {"auth", "response"} THEN exc.code \o <<" ">> \o exc.text
    ELSE exc.text

\* EmailSender._extract_smtp_error_text
ExtractSmtpErrorText(exc) ==
    IF exc.kind \in {"auth", "response"} THEN exc.text ELSE StrOf(exc)

\* EmailSender._channel_configured
ChannelConfigured(cfg, channel) == cfg[channel]

\* EmailSender._prepare_route, given the MX class of the recipient's domain
PrepareRoute(cfg, mx_class) ==
    LET provider0 == IF mx_class = "RU" THEN "yandex" ELSE "gmail"
        unconfigured == provider0 = "yandex" /\ ~ChannelConfigured(cfg, "yandex")
    IN [provider |-> IF unconfigured THEN "gmail" ELSE provider0,
        channel |-> IF unconfigured THEN "gmail" ELSE provider0,
        mx_class |-> mx_class,
        reply_to |-> None,
        fallback |-> unconfigured]

\* EmailSender._build_gmail_route
BuildGmailRoute(mx_class) ==
    [provider |-> "gmail", channel |-> "gmail", mx_class |-> mx_class,
     reply_to |-> None, fallback |-> TRUE]

\* any(token in error_text for token in spam_tokens), evaluated once per answer
HasSpamTokenOf(exc) ==
    \E token \in SpamTokens : Contains(Lower(ExtractSmtpErrorText(exc)), token)
HasSpamTokenTable == [exc \in SmtpOutcomes \cup {SmtpNoHost} |-> HasSpamTokenOf(exc)]
HasSpamToken(exc) == HasSpamTokenTable[exc]

\* EmailSender._should_fallback_to_gmail
ShouldFallbackFlipped(cfg, route, exc) ==
    /\ route.provider = "yandex"
    /\ route.fallback
    /\ ChannelConfigured(cfg, "gmail")
    /\ ExtractSmtpErrorText(exc) # <<>>
    /\ HasSpamToken(exc)

ShouldFallbackUnconfigured(cfg, route, exc) ==
    /\ route.provider = "yandex"
    /\ ~route.fallback
    /\ ExtractSmtpErrorText(exc) # <<>>
    /\ HasSpamToken(exc)

ShouldFallbackToGmail(cfg, route, exc) ==
    /\ route.provider = "yandex"
    /\ ~route.fallback
    /\ ChannelConfigured(cfg, "gmail")
    /\ ExtractSmtpErrorText(exc) # <<>>
    /\ HasSpamToken(exc)

\* EmailSender._send_via_channel: what the attempt ends in; without a host it
\* raises before any connection is made
SendViaChannel(cfg, channel, outcome) ==
    IF ~cfg[channel] THEN SmtpNoHost ELSE outcome

\* EmailSender._build_from_header: the From header of a channel
BuildFromHeader(channel) == <<"From", channel>>

\* EmailSender._apply_headers: the From and Reply-To headers of the message; a
\* Reply-To is set only for a reply_to that is not None
ApplyHeaders(channel, reply_to) ==
    [from |-> BuildFromHeader(channel), reply_to |-> reply_to]

\* One attempt as the log keeps it: the channel, the headers of the message,
\* whether a connection was made, and the answer
Attempt(cfg, route, outcome) ==
    [channel |-> route.channel, handed |-> cfg[route.channel],
     message |-> ApplyHeaders(route.channel, route.reply_to),
     answer |-> SendViaChannel(cfg, route.channel, outcome),
     result |-> SendViaChannel(cfg, route.channel, outcome).kind]

\* metadata["route"] as _deliver_with_session first fills it
RouteMeta(route) == [provider |-> route.provider, fallback |-> route.fallback]

\* the separator of the two error texts: " | fallback_failed: "
FallbackFailed == <<" ","|"," ","f","a","l","l","b","a","c","k","_","f","a","i","l","e","d",":"," ">>

\* EmailSender._deliver_with_fallback given r1 and r2, what the first attempt
\* and the attempt over the gmail route end in: the attempts made, the
\* exception that leaves the method (SmtpOk when none) and metadata["route"]
FallbackResult(cfg, route, a1, r1, a2, r2) ==
    IF r1.kind = "ok"
    THEN [attempts |-> <<a1>>, raised |-> SmtpOk, route |-> RouteMeta(route)]
    ELSE IF r1.kind = "auth"
    THEN [attempts |-> <<a1>>, raised |-> r1, route |-> RouteMeta(route)]
    ELSE IF ShouldFallbackToGmail(cfg, route, r1)
    THEN (IF r2.kind = "ok"
          THEN [attempts |-> <<a1, a2>>, raised |-> SmtpOk,
                route |-> [provider |-> "gmail", fallback |-> TRUE,
                           error |-> ExtractSmtpErrorText(r1)]]
          ELSE [attempts |-> <<a1, a2>>, raised |-> r2,
                route |-> JsonMerge(RouteMeta(route),
                    [error |-> ExtractSmtpErrorText(r1) \o FallbackFailed
                                 \o ExtractSmtpErrorText(r2)])])
    ELSE [attempts |-> <<a1>>, raised |-> r1,
          route |-> JsonMerge(RouteMeta(route), [error |-> ExtractSmtpErrorText(r1)])]

\* EmailSender._deliver_with_fallback.
\* o1, o2: how the first and the second SMTP conversation would end.
DeliverWithFallback(cfg, route, o1, o2) ==
    FallbackResult(cfg, route,
                   Attempt(cfg, route, o1),
                   SendViaChannel(cfg, route.channel, o1),
                   Attempt(cfg, BuildGmailRoute(route.mx_class), o2),
                   SendViaChannel(cfg, BuildGmailRoute(route.mx_class).channel, o2))

\* metadata of _deliver_with_session: recipient, mx class and route (the
\* message id, the MX records and the time of the lookup are left out)
DeliverMetadata(normalized_email, mx_class, route) ==
    [recipient |-> normalized_email, mx |-> mx_class, route |-> route]

\* EmailSender.deliver with _deliver_with_session, given normalized_email and
\* what _deliver_with_fallback did (sent): the value returned, the row after
\* the call, the SMTP attempts made and the lookups made (the registry query of
\* _is_opt_out, the mx_router.classify of _prepare_route).
DeliverResult(enabled, registry, row, to_email, now_utc, mx_class, normalized_email, sent) ==
    IF ~enabled
    THEN [ret |-> "disabled", row |-> row, attempts |-> <<>>, lookups |-> <<>>]
    ELSE IF ~IsWithinSendWindow(AsLocal(now_utc))
    THEN [ret |-> "scheduled", row |-> row, attempts |-> <<>>, lookups |-> <<>>]
    ELSE IF ~IsValidEmail(normalized_email)
    THEN [ret |-> "skipped", attempts |-> <<>>, lookups |-> <<>>,
          row |-> UpdateStatus(row, "skipped", Null, INVALID_EMAIL,
                     [reason |-> INVALID_EMAIL,
                      to_email |-> IF normalized_email # <<>>
                                   THEN normalized_email ELSE to_email,
                      to_email_raw |-> to_email])]
    ELSE IF IsOptOut(registry, normalized_email)
    THEN [ret |-> "skipped", attempts |-> <<>>, lookups |-> <<"opt_out">>,
          row |-> UpdateStatus(row, "skipped", Null, OPT_OUT, [reason |-> OPT_OUT])]
    ELSE IF sent.raised.kind = "ok"
    THEN [ret |-> "sent", attempts |-> sent.attempts, lookups |-> <<"opt_out", "mx">>,
          row |-> UpdateStatus(row, "sent", now_utc, None,
                     DeliverMetadata(normalized_email, mx_class, sent.route))]
    ELSE [ret |-> "failed", attempts |-> sent.attempts, lookups |-> <<"opt_out", "mx">>,
          row |-> UpdateStatus(row, "failed", Null, StrOf(sent.raised),
                     DeliverMetadata(normalized_email, mx_class,
                         JsonMerge(sent.route, [error |-> StrOf(sent.raised)])))]

\* EmailSender.deliver with _deliver_with_session
Deliver(cfg, enabled, registry, row, to_email, now_utc, mx_class, o1, o2) ==
    DeliverResult(enabled, registry, row, to_email, now_utc, mx_class,
                  CleanEmail(to_email),
                  DeliverWithFallback(cfg, PrepareRoute(cfg, mx_class), o1, o2))

----------------------------------------------------------------------------
(* Inputs of the sender's calls.                                           *)

MaxRows == 3
MaxAccepted == 2

MxClasses == {"RU", "OTHER", "UNKNOWN"}

DelaySamples == {MIN_SEND_DELAY_SECONDS, MAX_SEND_DELAY_SECONDS}

\* local wall-clock times around the edges of the send window
WallClockSamples == {TimeOfDay(3, 0), SEND_WINDOW_START - 1, SEND_WINDOW_START,
                     SEND_WINDOW_END - MAX_SEND_DELAY_SECONDS,
                     SEND_WINDOW_END - MIN_SEND_DELAY_SECONDS,
                     SEND_WINDOW_END, SEND_WINDOW_END + 1}
\* the clock readings a call may get: any sample of the first day, and noon
\* of the next
NowSamples == {AsUtc(Combine(1, t)) : t \in WallClockSamples}
                  \cup {AsUtc(Combine(2, TimeOfDay(12, 0)))}
\* scheduled_for arguments a caller may pass: none, 03:00 and 12:00 local
GivenSamples == {Null, AsUtc(Combine(1, TimeOfDay(3, 0))),
                 AsUtc(Combine(1, TimeOfDay(12, 0)))}

\* last: the anchor the call computed from, a local time; top: the greatest
\* scheduled_for its session could see at that moment (Null: none, or the call
\* computed no time)
\* now, mx: the clock reading and the MX class of a deliver call; lookups: the
\* lookups it made
NoCall == [op |-> "none", id |-> 0, ret |-> "none", given |-> FALSE, attempts |-> <<>>,
           last |-> Null, top |-> Null, now |-> Null, mx |-> "none",
           lookups |-> <<>>]

SenderIdle ==
    /\ outreach = <<>>
    /\ optOut = {}
    /\ sendingEnabled = TRUE
    /\ chanCfg = [gmail |-> TRUE, yandex |-> TRUE]
    /\ smtpLog = <<>>
    /\ lastCall = NoCall

Ids(rows) == 1..Len(rows)
ScheduledFor(rows, i) == IF i = 0 THEN Null ELSE rows[i].scheduled_for

\* _compute_scheduled_for runs, and with it the SELECT, only for a valid
\* address without a scheduled_for argument
ReadsLast(to_email, given) == IsValidEmail(CleanEmail(to_email)) /\ given = Null

\* the session of queue commits: the row is stored
QueueCommit(row, given, last, top) ==
    /\ outreach' = Append(outreach, row)
    /\ smtpLog' = Append(smtpLog, 0)
    /\ lastCall' = [NoCall EXCEPT !.op = "queue", !.id = Len(outreach) + 1,
                                  !.ret = row.status, !.given = (given # Null),
                                  !.last = last, !.top = top]
    /\ UNCHANGED <<optOut, sendingEnabled, chanCfg>>

\* EmailSender.queue in a session of its own (session_scope commits on return),
\* with no other session open
Queue(contact_id, to_email, given, now_utc, delay, delay2) ==
    QueueCommit(QueueRow(contact_id, to_email, given,
                         ScheduledFor(outreach, LastScheduledId(outreach, Ids(outreach), {})),
                         now_utc, delay, delay2),
                given,
                IF ReadsLast(to_email, given)
                THEN Anchor(ScheduledFor(outreach, LastScheduledId(outreach, Ids(outreach), {})),
                            now_utc)
                ELSE Null,
                IF ReadsLast(to_email, given)
                THEN ScheduledFor(outreach, LastScheduledId(outreach, Ids(outreach), {}))
                ELSE Null)

QueueCall ==
    \E e \in {AddrNamed, AddrBroken}, g \in GivenSamples, n \in NowSamples,
       d \in DelaySamples, d2 \in DelaySamples :
        /\ Len(outreach) < MaxRows
        /\ Queue(1, e, g, n, d, d2)
        /\ UNCHANGED <<batchVars, schedVars, clientVars, restVars>>

----------------------------------------------------------------------------
(* Parts of the system a specification does not exercise stay as built.    *)

BatchIdle == tx = <<>> /\ contacts = <<>>
SchedIdle == queries = <<>> /\ operations = <<>> /\ stx = <<>> /\ submitted = <<>>
\* n: how many calls the client has served; at: the clock when the call came
NoClientCall == [op |-> "none", ret |-> "none", at |-> 0, n |-> 0]

ClientIdle ==
    /\ enforceNightWindow = TRUE
    /\ clock = 0
    /\ createEvents = <<>>
    /\ statusEvents = <<>>
    /\ httpLog = <<>>
    /\ clientCall = NoClientCall

----------------------------------------------------------------------------
(* The MX router: TTLCache and MXRouter.classify.  A domain and an MX host *)
(* are text; the cache key is the normalized domain (the code prefixes it  *)
(* with "mx:").                                                            *)

\* settings.mx_cache_ttl_hours
MxTtlHours == 168
\* ttl_seconds = max(mx_cache_ttl_hours * 3600, 60)
MxTtlSeconds == IF MxTtlHours * 3600 > 60 THEN MxTtlHours * 3600 ELSE 60
\* TTLCache._maxsize, 1024 in the code, scaled down
CacheMaxSize == 2

\* settings.ru_mx_patterns, lower-cased
RuPatterns == {
    <<"m","x",".","y","a","n","d","e","x",".","n","e","t">>,
    <<"m","x","s",".","m","a","i","l",".","r","u">>,
    <<"m","x","1",".","m","a","i","l",".","r","u">>,
    <<"m","x","s","-","c","l","o","u","d",".","m","a","i","l",".","r","u">>,
    <<"m","x",".","r","a","m","b","l","e","r",".","r","u">>,
    <<"m","x","s",".","r","a","m","b","l","e","r",".","r","u">> }
\* settings.force_ru_domains, lower-cased
ForceRuDomains == {
    <<"y","a","n","d","e","x",".","r","u">>,
    <<"y","a","n","d","e","x",".","c","o","m">>,
    <<"m","a","i","l",".","r","u">>,
    <<"b","k",".","r","u">>,
    <<"i","n","b","o","x",".","r","u">>,
    <<"l","i","s","t",".","r","u">>,
    <<"r","a","m","b","l","e","r",".","r","u">> }

\* what get returns for a miss, and the absent entry
NoValue == [classification |-> "none", records |-> <<>>]
NoEntry == [key |-> <<>>, expires_at |-> 0, value |-> NoValue]

\* the position of key in the store, 0 when absent
CacheIndex(store, key) ==
    IF \E i \in 1..Len(store) : store[i].key = key
    THEN CHOOSE i \in 1..Len(store) : store[i].key = key
    ELSE 0

CacheWithout(store, key) == SelectSeq(store, LAMBDA e : e.key # key)

\* TTLCache.get at position idx: the value returned (NoValue for a miss) and the
\* store after the call; an expired entry is dropped, a hit moves to the end
CacheGetStrict(store, key, idx, now) ==
    IF idx = 0 THEN [value |-> NoValue, store |-> store]
    ELSE IF store[idx].expires_at < now
    THEN [value |-> NoValue, store |-> CacheWithout(store, key)]
    ELSE [value |-> store[idx].value,
          store |-> Append(CacheWithout(store, key), store[idx])]

\* a get that returns a live entry without move_to_end
CacheGetNoTouch(store, key, idx, now) ==
    IF idx = 0 THEN [value |-> NoValue, store |-> store]
    ELSE IF store[idx].expires_at <= now
    THEN [value |-> NoValue, store |-> CacheWithout(store, key)]
    ELSE [value |-> store[idx].value, store |-> store]

CacheGet(store, key, idx, now) ==
    IF idx = 0 THEN [value |-> NoValue, store |-> store]
    ELSE IF store[idx].expires_at <= now
    THEN [value |-> NoValue, store |-> CacheWithout(store, key)]
    ELSE [value |-> store[idx].value,
          store |-> Append(CacheWithout(store, key), store[idx])]

\* popitem(last=False) when the store has outgrown maxsize
CacheTrim(store) == IF Len(store) > CacheMaxSize THEN Tail(store) ELSE store

\* TTLCache.set: the store after the call
CacheSet(store, key, value, now) ==
    CacheTrim(Append(CacheWithout(store, key),
                     [key |-> key, expires_at |-> now + MxTtlSeconds, value |-> value]))

\* what one resolver.resolve(domain, "MX") ends in: a DNSException, or an
\* answer with its exchanges
DnsTimeout == [ok |-> FALSE, exchanges |-> <<>>]
DnsEmpty == [ok |-> TRUE, exchanges |-> <<>>]
DnsYandex == [ok |-> TRUE, exchanges |-> << <<"M","X",".","Y","a","n","d","e","x",".","n","e","t",".">> >>]
DnsGoogle == [ok |-> TRUE, exchanges |-> << <<"a","s","p","m","x",".","l",".","g","o","o","g","l","e",".","c","o","m",".">> >>]
DnsAnswers == {DnsTimeout, DnsEmpty, DnsYandex, DnsGoogle}

\* hosts = [str(r.exchange).rstrip(".").lower() for r in answers]
HostsOf(answer) ==
    [i \in 1..Len(answer.exchanges) |-> Lower(RStrip(answer.exchanges[i], {"."}))]

\* MXRouter._resolve_mx over _resolvers_order (the configured resolvers, then
\* the system's): a1, a2 are what the first and the second attempt end in;
\* raised: the last DNSException leaves the method
ResolveMx(a1, a2) ==
    IF a1.ok THEN [queries |-> 1, raised |-> FALSE, hosts |-> HostsOf(a1)]
    ELSE IF a2.ok THEN [queries |-> 2, raised |-> FALSE, hosts |-> HostsOf(a2)]
    ELSE [queries |-> 2, raised |-> TRUE, hosts |-> <<>>]

\* MXRouter._matches_ru
MatchesRu(records) ==
    \E i \in 1..Len(records) : \E pattern \in RuPatterns :
        Contains(Lower(records[i]), pattern)

\* MXRouter._classify_uncached, given what _resolve_mx did
ClassifyResolved(resolved) ==
    IF resolved.raised \/ resolved.hosts = <<>>
    THEN [classification |-> "UNKNOWN", records |-> <<>>, dns |-> resolved.queries,
          exhausted |-> TRUE]
    ELSE [classification |-> IF MatchesRu(resolved.hosts) THEN "RU" ELSE "OTHER",
          records |-> resolved.hosts, dns |-> resolved.queries, exhausted |-> FALSE]

ClassifyUncachedTable ==
    [a1 \in DnsAnswers |-> [a2 \in DnsAnswers |-> ClassifyResolved(ResolveMx(a1, a2))]]
ClassifyUncached(a1, a2) == ClassifyUncachedTable[a1][a2]

\* the domains callers pass
MxDomains == { <<"a",".","r","u">>,
               <<" ","A",".","R","U">>,
               <<"b",".","c","o","m">>,
               <<"m","a","i","l",".","r","u">>,
               <<" ">> }
\* normalized = (domain or "").strip().lower()
MxNormalizeTable == [d \in MxDomains |-> Lower(Strip(d, Whitespace))]
MxNormalize(domain) == MxNormalizeTable[domain]
MxKeys == {MxNormalize(d) : d \in MxDomains}

\* MXRouter.classify after normalization: got is what _cache.get returned,
\* fresh what _classify_uncached would return.  The result and the store after
\* the call.
ClassifyNormalized(enabled, store, normalized, now, got, fresh) ==
    IF ~enabled
    THEN [classification |-> "OTHER", records |-> <<>>, ttl_hit |-> FALSE, dns |-> 0,
          exhausted |-> FALSE, store |-> store]
    ELSE IF normalized = <<>>
    THEN [classification |-> "UNKNOWN", records |-> <<>>, ttl_hit |-> FALSE, dns |-> 0,
          exhausted |-> FALSE, store |-> store]
    ELSE IF normalized \in ForceRuDomains
    THEN [classification |-> "RU", records |-> <<>>, ttl_hit |-> FALSE, dns |-> 0,
          exhausted |-> FALSE,
          store |-> CacheSet(store, normalized,
                             [classification |-> "RU", records |-> <<>>], now)]
    ELSE IF got.value # NoValue
    THEN [classification |-> got.value.classification, records |-> got.value.records,
          ttl_hit |-> TRUE, dns |-> 0, exhausted |-> FALSE, store |-> got.store]
    ELSE [classification |-> fresh.classification, records |-> fresh.records,
          ttl_hit |-> FALSE, dns |-> fresh.dns, exhausted |-> fresh.exhausted,
          store |-> CacheSet(got.store, normalized,
                             [classification |-> fresh.classification,
                              records |-> fresh.records], now)]

\* MXRouter.classify
Classify(enabled, store, domain, now, a1, a2) ==
    ClassifyNormalized(enabled, store, MxNormalize(domain), now,
                       CacheGet(store, MxNormalize(domain),
                                CacheIndex(store, MxNormalize(domain)), now),
                       ClassifyUncached(a1, a2))

\* records: the MX hosts; dns: the DNS queries the call issued; had: the cache
\* entry of the domain as the call found it; nth: for the forced domain, the
\* classify calls so far, this one included; exhausted: every DNS attempt failed or the
\* answer held no records; prior: for the observed domain, its last resolution
\* through DNS before the call
NoMxCall == [op |-> "none", domain |-> <<>>, now |-> 0, classification |-> "none",
             records |-> <<>>, ttl_hit |-> FALSE, dns |-> 0, had |-> NoEntry,
             nth |-> 0, exhausted |-> FALSE,
             prior |-> [at |-> Null, classification |-> "none", late |-> FALSE]]

RouterIdle ==
    /\ mxEnabled = TRUE
    /\ mxCache = <<>>
    /\ mxClock = 0
    /\ mxCall = NoMxCall
    /\ mxHist = <<>>

DedupIdle == companies = <<>> /\ dedupCall = <<>>
TickIdle == stageRows = <<>> /\ tickCall = <<>>
PipeIdle == wall = 0 /\ serpResults = <<>> /\ ingestCall = <<>> /\ fnCall = <<>>
RestIdle == RouterIdle /\ DedupIdle /\ TickIdle /\ PipeIdle

----------------------------------------------------------------------------
(* SpecQueue: successive queue calls on one store, each in its own session, *)
(* at any clock reading and with any scheduled_for argument.               *)

InitQueue == SenderIdle /\ BatchIdle /\ SchedIdle /\ ClientIdle /\ RestIdle
NextQueue == QueueCall
SpecQueue == InitQueue /\ [][NextQueue]_vars

----------------------------------------------------------------------------
(* SpecSender: the life of one outreach message: queue, then deliver and    *)
(* mark_status in any order and number, with the registry growing and a    *)
(* process that may die inside deliver.  Every statement of the sender     *)
(* addresses one row by id, so further rows add nothing to a row's life.   *)

\* the clock readings of this specification: 12:00 and 03:00 local
NoonUtc == AsUtc(Combine(1, TimeOfDay(12, 0)))
NightUtc == AsUtc(Combine(1, TimeOfDay(3, 0)))
SenderNows == {NoonUtc, NightUtc}

InitSender ==
    /\ outreach = <<>>
    /\ optOut = {}
    /\ sendingEnabled \in BOOLEAN
    /\ chanCfg = [gmail |-> TRUE, yandex |-> TRUE]
    /\ smtpLog = <<>>
    /\ lastCall = NoCall
    /\ BatchIdle /\ SchedIdle /\ ClientIdle /\ RestIdle

\* the raw values the callers of this specification hold
SenderEmails == {AddrPlain, AddrMailto, AddrBroken}

SenderQueue ==
    \E e \in SenderEmails :
        /\ outreach = <<>>
        /\ Queue(1, e, Null, NoonUtc, MIN_SEND_DELAY_SECONDS, MIN_SEND_DELAY_SECONDS)
        /\ UNCHANGED <<batchVars, schedVars, clientVars, restVars>>

\* the raw values a caller holds for a row: those that clean to the address
\* the row was queued with
RawFor(row) == {e \in SenderEmails :
                   (IF CleanEmail(e) # <<>> THEN CleanEmail(e) ELSE e) = row.metadata.to_email}

\* the attempts the transport accepted
Accepted(attempts) == Cardinality({i \in 1..Len(attempts) : attempts[i].result = "ok"})

LogAttempts(log, id, attempts) == [log EXCEPT ![id] = @ + Accepted(attempts)]

\* the session of deliver ends: committed, or rolled back because the process
\* died after the SMTP conversation
DeliverEnd(id, res, now_utc, mx_class, commit) ==
    /\ smtpLog[id] < MaxAccepted
    /\ outreach' = IF commit THEN [outreach EXCEPT ![id] = res.row] ELSE outreach
    /\ smtpLog' = LogAttempts(smtpLog, id, res.attempts)
    /\ lastCall' = [NoCall EXCEPT !.op = IF commit THEN "deliver" ELSE "deliver_crash",
                                  !.id = id, !.ret = res.ret, !.attempts = res.attempts,
                                  !.now = now_utc, !.mx = mx_class,
                                  !.lookups = res.lookups]
    /\ UNCHANGED <<optOut, sendingEnabled, chanCfg>>

\* EmailSender.deliver in a session of its own
DeliverStep(id, to_email, now_utc, mx_class, o1, o2, commit) ==
    DeliverEnd(id,
               Deliver(chanCfg, sendingEnabled, optOut, outreach[id], to_email,
                       now_utc, mx_class, o1, o2),
               now_utc, mx_class, commit)

\* the second conversation is read only when the first ends in an SMTP error
\* other than an authentication error
SecondOutcomes(o1) == IF o1.kind \in {"ok", "auth"} THEN {SmtpOk} ELSE SmtpOutcomes

\* the MX classes and SMTP answers of this specification (SpecRoute goes
\* through all of them)
SenderMx == {"RU", "OTHER"}
SenderOutcomes == {SmtpOk, SmtpSpam, SmtpAuth}

DeliverCall ==
    \E id \in Ids(outreach), n \in SenderNows, mx \in SenderMx, o1 \in SenderOutcomes :
      \E e \in RawFor(outreach[id]), o2 \in SecondOutcomes(o1) \cap SenderOutcomes :
        /\ DeliverStep(id, e, n, mx, o1, o2, TRUE)
        /\ UNCHANGED <<batchVars, schedVars, clientVars, restVars>>

\* the process dies after the transport accepted the message and before the
\* session commits
DeliverCrash ==
    \E id \in Ids(outreach), mx \in SenderMx, o1 \in SenderOutcomes :
      \E e \in RawFor(outreach[id]), o2 \in SecondOutcomes(o1) \cap SenderOutcomes :
        /\ DeliverStep(id, e, NoonUtc, mx, o1, o2, FALSE)
        /\ lastCall'.ret = "sent"
        /\ UNCHANGED <<batchVars, schedVars, clientVars, restVars>>

\* EmailSender.mark_status in a session of its own
MarkStatus(id, status, sent_at, last_error) ==
    /\ outreach' = [outreach EXCEPT ![id] =
                        UpdateStatus(outreach[id], status, sent_at, last_error, <<>>)]
    /\ lastCall' = [NoCall EXCEPT !.op = "mark_status", !.id = id, !.ret = status]
    /\ UNCHANGED <<optOut, sendingEnabled, chanCfg, smtpLog>>

\* status is any status and sent_at any value or the default None
MarkStatusCall ==
    \E id \in Ids(outreach), st \in Statuses, at \in {Null, NoonUtc} :
        /\ MarkStatus(id, st, at, None)
        /\ UNCHANGED <<batchVars, schedVars, clientVars, restVars>>

\* the registry is maintained outside the pipeline: a value is added
OptOutAdd ==
    \E v \in OptOutValues :
        /\ v \notin optOut
        /\ optOut' = optOut \cup {v}
        /\ lastCall' = [NoCall EXCEPT !.op = "registry"]
        /\ UNCHANGED <<outreach, sendingEnabled, chanCfg, smtpLog>>
        /\ UNCHANGED <<batchVars, schedVars, clientVars, restVars>>

NextSender ==
    \/ SenderQueue
    \/ DeliverCall
    \/ DeliverCrash
    \/ MarkStatusCall
    \/ OptOutAdd
SpecSender == InitSender /\ [][NextSender]_vars

----------------------------------------------------------------------------
(* SpecRoute: deliver calls at noon on one queued message, for every        *)
(* configuration of the two channels, every MX class of the recipient's    *)
(* domain and every answer of the SMTP servers.                            *)

InitRoute ==
    /\ outreach = <<>>
    /\ optOut = {}
    /\ sendingEnabled = TRUE
    /\ chanCfg \in [gmail : BOOLEAN, yandex : BOOLEAN]
    /\ smtpLog = <<>>
    /\ lastCall = NoCall
    /\ BatchIdle /\ SchedIdle /\ ClientIdle /\ RestIdle

RouteDeliver ==
    \E id \in Ids(outreach), mx \in MxClasses, o1 \in SmtpOutcomes :
      \E e \in RawFor(outreach[id]), o2 \in SecondOutcomes(o1) :
        /\ DeliverStep(id, e, NoonUtc, mx, o1, o2, TRUE)
        /\ UNCHANGED <<batchVars, schedVars, clientVars, restVars>>

NextRoute == SenderQueue \/ RouteDeliver
SpecRoute == InitRoute /\ [][NextRoute]_vars

----------------------------------------------------------------------------
(* SpecRouter: classify calls on one MXRouter while its clock advances.     *)

\* the clock readings: construction, and the last second before and the first
\* second after an entry made at construction expires
MxClockSamples == {0, MxTtlSeconds - 1, MxTtlSeconds}

\* the domain whose resolutions are followed, and the forced domain whose
\* calls are counted; the other domains fill the cache
ObservedKey == MxNormalize(<<"a",".","r","u">>)
ForcedKey == MxNormalize(<<"m","a","i","l",".","r","u">>)

\* calls: classify calls for ForcedKey so far (3: three or more); resolved: the
\* last time DNS answered with records for ObservedKey, and whether the domain
\* has been classified since a TTL after it (late)
NoHist == [calls |-> 0,
           resolved |-> [at |-> Null, classification |-> "none", late |-> FALSE]]

InitRouter ==
    /\ mxEnabled \in BOOLEAN
    /\ mxCache = <<>>
    /\ mxClock = 0
    /\ mxCall = NoMxCall
    /\ mxHist = NoHist
    /\ SenderIdle /\ BatchIdle /\ SchedIdle /\ ClientIdle /\ DedupIdle /\ TickIdle /\ PipeIdle

CacheEntry(store, idx) == IF idx = 0 THEN NoEntry ELSE store[idx]

\* the call returns res
ClassifyEnd(domain, key, res) ==
    /\ mxCache' = res.store
    /\ mxCall' = [op |-> "classify", domain |-> domain, now |-> mxClock,
                  classification |-> res.classification, records |-> res.records,
                  ttl_hit |-> res.ttl_hit, dns |-> res.dns,
                  had |-> CacheEntry(mxCache, CacheIndex(mxCache, key)),
                  nth |-> IF key # ForcedKey THEN 0
                          ELSE IF mxHist.calls < 3 THEN mxHist.calls + 1 ELSE 3,
                  exhausted |-> res.exhausted,
                  prior |-> IF key = ObservedKey THEN mxHist.resolved
                            ELSE NoHist.resolved]
    /\ mxHist' = [calls |-> IF key = ForcedKey /\ mxHist.calls < 3
                             THEN mxHist.calls + 1 ELSE mxHist.calls,
                   resolved |-> IF key = ObservedKey /\ res.dns > 0 /\ ~res.exhausted
                                THEN [at |-> mxClock, classification |-> res.classification,
                                      late |-> FALSE]
                                ELSE IF /\ key = ObservedKey
                                        /\ mxHist.resolved.at # Null
                                        /\ mxClock >= mxHist.resolved.at + MxTtlSeconds
                                THEN [mxHist.resolved EXCEPT !.late = TRUE]
                                ELSE mxHist.resolved]
    /\ UNCHANGED <<mxEnabled, mxClock>>

\* what DNS may answer for a domain: anything for the observed one
FirstAnswers(key) == IF key = ObservedKey THEN DnsAnswers ELSE {DnsTimeout, DnsGoogle}
\* the second attempt is read only when the first fails
SecondAnswers(a1) == IF a1.ok THEN {DnsTimeout} ELSE {DnsTimeout, DnsYandex}

MxClassify ==
    \E d \in MxDomains :
      \E a1 \in FirstAnswers(MxNormalize(d)), a2 \in DnsAnswers :
        /\ a2 \in SecondAnswers(a1)
        /\ ClassifyEnd(d, MxNormalize(d), Classify(mxEnabled, mxCache, d, mxClock, a1, a2))
        /\ UNCHANGED <<senderVars, batchVars, schedVars, clientVars, dedupVars, tickVars, pipeVars>>

MxClockAdvance ==
    \E t \in MxClockSamples :
        /\ t > mxClock
        /\ mxClock' = t
        /\ UNCHANGED <<mxEnabled, mxCache, mxCall, mxHist>>
        /\ UNCHANGED <<senderVars, batchVars, schedVars, clientVars, dedupVars, tickVars, pipeVars>>

NextRouter == MxClassify \/ MxClockAdvance
SpecRouter == InitRouter /\ [][NextRouter]_vars

----------------------------------------------------------------------------
(* SpecCache: get and set calls on one TTLCache while its clock advances.   *)

MaxCacheCalls == 4
CacheKeys == {<<"m","x",":","a">>, <<"m","x",":","b">>, <<"m","x",":","c">>,
              <<"m","x",":","d">>}
CacheValues == {[classification |-> "RU", records |-> <<>>],
                [classification |-> "OTHER", records |-> <<>>]}

\* n: the calls so far; used: by key, the number of the last call that wrote
\* the key or read it live (0: never); how: what that call was
NoUse == [n |-> 0, used |-> [k \in CacheKeys |-> 0], how |-> [k \in CacheKeys |-> "none"]]
NoCacheCall == [op |-> "none", key |-> <<>>, before |-> <<>>, used |-> NoUse.used]

InitCache ==
    /\ mxEnabled = TRUE
    /\ mxCache = <<>>
    /\ mxClock = 0
    /\ mxCall = NoCacheCall
    /\ mxHist = NoUse
    /\ SenderIdle /\ BatchIdle /\ SchedIdle /\ ClientIdle /\ DedupIdle /\ TickIdle /\ PipeIdle

\* the call is recorded; it counts as a use of key when touched
CacheCalled(op, key, touched) ==
    /\ mxCall' = [op |-> op, key |-> key, before |-> mxCache, used |-> mxHist.used]
    /\ mxHist' = [n |-> mxHist.n + 1,
                  used |-> IF touched THEN [mxHist.used EXCEPT ![key] = mxHist.n + 1]
                           ELSE mxHist.used,
                  how |-> IF touched THEN [mxHist.how EXCEPT ![key] = op]
                          ELSE mxHist.how]

\* TTLCache.get(key)
CacheGetCall ==
    \E key \in CacheKeys :
        /\ mxHist.n < MaxCacheCalls
        /\ mxCache' = CacheGet(mxCache, key, CacheIndex(mxCache, key), mxClock).store
        /\ CacheCalled("get", key,
                       CacheGet(mxCache, key, CacheIndex(mxCache, key), mxClock).value
                           # NoValue)
        /\ UNCHANGED <<mxEnabled, mxClock>>
        /\ UNCHANGED <<senderVars, batchVars, schedVars, clientVars, dedupVars, tickVars, pipeVars>>

\* TTLCache.set(key, value)
CacheSetCall ==
    \E key \in CacheKeys, value \in CacheValues :
        /\ mxHist.n < MaxCacheCalls
        /\ mxCache' = CacheSet(mxCache, key, value, mxClock)
        /\ CacheCalled("set", key, TRUE)
        /\ UNCHANGED <<mxEnabled, mxClock>>
        /\ UNCHANGED <<senderVars, batchVars, schedVars, clientVars, dedupVars, tickVars, pipeVars>>

NextCache == CacheGetCall \/ CacheSetCall \/ MxClockAdvance
SpecCache == InitCache /\ [][NextCache]_vars

----------------------------------------------------------------------------
(* SpecRace: two threads call classify for the same domain on one MXRouter; *)
(* the cache's lock covers a single get or set, not the call.               *)

Threads == {"t1", "t2"}
RacedDomain == <<"a",".","r","u">>
RacedKey == MxNormalize(RacedDomain)

\* a thread's call: before its cache read (start), before its DNS lookup
\* (lookup), before its cache write (write), returned (done)
NoResult == [classification |-> "none", records |-> <<>>, ttl_hit |-> FALSE]
StartedCall == [pc |-> "start", fresh |-> NoResult, ret |-> NoResult]

InitRace ==
    /\ mxEnabled = TRUE
    /\ mxCache = <<>>
    /\ mxClock = 0
    /\ mxCall = [t \in Threads |-> StartedCall]
    /\ mxHist = <<>>
    /\ SenderIdle /\ BatchIdle /\ SchedIdle /\ ClientIdle /\ DedupIdle /\ TickIdle /\ PipeIdle

\* cached = self._cache.get(cache_key), and the return of a hit
RaceGetOf(t, got) ==
    /\ mxCache' = got.store
    /\ mxCall' = [mxCall EXCEPT ![t] =
                     IF got.value # NoValue
                     THEN [pc |-> "done", fresh |-> NoResult,
                           ret |-> [classification |-> got.value.classification,
                                    records |-> got.value.records, ttl_hit |-> TRUE]]
                     ELSE [@ EXCEPT !.pc = "lookup"]]

RaceGet ==
    \E t \in Threads :
        /\ mxCall[t].pc = "start"
        /\ RaceGetOf(t, CacheGet(mxCache, RacedKey, CacheIndex(mxCache, RacedKey), mxClock))
        /\ UNCHANGED <<mxEnabled, mxClock, mxHist>>
        /\ UNCHANGED <<senderVars, batchVars, schedVars, clientVars, dedupVars, tickVars, pipeVars>>

\* classification, records = self._classify_uncached(normalized)
RaceResolve ==
    \E t \in Threads, a1 \in DnsAnswers, a2 \in {DnsTimeout, DnsYandex} :
        /\ mxCall[t].pc = "lookup"
        /\ mxCall' = [mxCall EXCEPT ![t] =
                         [@ EXCEPT !.pc = "write",
                                   !.fresh = [classification |-> ClassifyUncached(a1, a2).classification,
                                              records |-> ClassifyUncached(a1, a2).records,
                                              ttl_hit |-> FALSE]]]
        /\ UNCHANGED <<mxEnabled, mxCache, mxClock, mxHist>>
        /\ UNCHANGED <<senderVars, batchVars, schedVars, clientVars, dedupVars, tickVars, pipeVars>>

\* self._cache.set(cache_key, (classification, records)), and the return
RaceSet ==
    \E t \in Threads :
        /\ mxCall[t].pc = "write"
        /\ mxCache' = CacheSet(mxCache, RacedKey,
                               [classification |-> mxCall[t].fresh.classification,
                                records |-> mxCall[t].fresh.records], mxClock)
        /\ mxCall' = [mxCall EXCEPT ![t] = [@ EXCEPT !.pc = "done", !.ret = mxCall[t].fresh]]
        /\ UNCHANGED <<mxEnabled, mxClock, mxHist>>
        /\ UNCHANGED <<senderVars, batchVars, schedVars, clientVars, dedupVars, tickVars, pipeVars>>

NextRace == RaceGet \/ RaceResolve \/ RaceSet \/ MxClockAdvance
SpecRace == InitRace /\ [][NextRace]_vars

----------------------------------------------------------------------------
(* The deduplicator: normalize_domain, build_company_dedupe_key and        *)
(* DeduplicationService.run.  NULL text is the empty text.                 *)

\* _SCHEME_RE = ^[a-zA-Z][a-zA-Z0-9+.-]*:// : the length of the scheme with its
\* "://", 0 when the value does not start with one
SchemeLetters == Range(UpperLetters) \cup Range(LowerLetters)
SchemeChars == SchemeLetters \cup Digits \cup {"+", ".", "-"}
SchemeLength(value, colon) ==
    IF /\ colon > 1
       /\ colon + 2 <= Len(value)
       /\ value[colon + 1] = "/" /\ value[colon + 2] = "/"
       /\ value[1] \in SchemeLetters
       /\ \A i \in 2..(colon - 1) : value[i] \in SchemeChars
    THEN colon + 2 ELSE 0

\* the text before the first character of chars
UpTo(s, chars) ==
    IF \E i \in 1..Len(s) : s[i] \in chars
    THEN SubSeq(s, 1, (CHOOSE i \in 1..Len(s) :
                          /\ s[i] \in chars
                          /\ \A j \in 1..(i - 1) : s[j] \notin chars) - 1)
    ELSE s

\* host.startswith("www.") -> host[4:]
DropWww(host) ==
    IF StartsWith(host, <<"w","w","w",".">>) THEN SubSeq(host, 5, Len(host)) ELSE host

\* the text after the first len characters
After(s, len) == SubSeq(s, len + 1, Len(s))

\* int(text) for a text of digits, 0 for the empty text
DigitSeq == <<"0","1","2","3","4","5","6","7","8","9">>
RECURSIVE ToInt(_)
ToInt(digits) ==
    IF digits = <<>> THEN 0
    ELSE 10 * ToInt(SubSeq(digits, 1, Len(digits) - 1))
         + (CHOOSE d \in 0..9 : DigitSeq[d + 1] = digits[Len(digits)])
\* str(number)
RECURSIVE IntText(_)
IntText(n) == IF n < 10 THEN <<DigitSeq[n + 1]>> ELSE IntText(n \div 10) \o <<DigitSeq[(n % 10) + 1]>>

\* re.sub(r"/{2,}", "/", path)
RECURSIVE CollapseSlashes(_)
CollapseSlashes(path) ==
    IF Len(path) < 2 THEN path
    ELSE IF path[1] = "/" /\ path[2] = "/" THEN CollapseSlashes(Tail(path))
    ELSE <<path[1]>> \o CollapseSlashes(Tail(path))

\* SplitResult.port of a netloc without user info: the number after the colon,
\* 0 for None
PortOf(netloc) ==
    IF IndexOf(netloc, ":") = 0 THEN 0 ELSE ToInt(After(netloc, IndexOf(netloc, ":")))

\* host: lower case, one leading www. removed, the port kept when it is
\* neither 80 nor 443
HostOf(netloc, port) ==
    IF port # 0 /\ port \notin {80, 443}
    THEN UpTo(DropWww(Lower(netloc)), {":"}) \o <<":">> \o IntText(port)
    ELSE UpTo(DropWww(Lower(netloc)), {":"})

\* clean_path.rstrip("/") or "/"
CleanPath(path) ==
    IF RStrip(IF CollapseSlashes(path) = <<>> THEN <<"/">> ELSE CollapseSlashes(path), {"/"}) = <<>>
    THEN <<"/">>
    ELSE RStrip(CollapseSlashes(path), {"/"})

\* urlunparse((scheme, host, path, "", query, ""))
UrlUnparse(scheme, host, path, query) ==
    scheme \o <<":","/","/">> \o host \o path
        \o (IF query = <<>> THEN <<>> ELSE <<"?">> \o query)

\* normalize_url from the parts urlparse gives: netloc, and tail the path
\* with the query (the fragment is dropped)
NormalizeParsed(scheme, netloc, path, query) ==
    IF netloc # <<>> THEN UrlUnparse(scheme, HostOf(netloc, PortOf(netloc)), CleanPath(path), query)
    ELSE IF path = <<>> THEN <<>>
    ELSE UrlUnparse(scheme, HostOf(path, 0), <<"/">>, query)

\* urlparse of scheme://rest
NormalizeRest(scheme, netloc, tail) ==
    NormalizeParsed(scheme, netloc, UpTo(tail, {"?"}),
                    After(tail, Len(UpTo(tail, {"?"})) + 1))
NormalizeSchemed(value, len) ==
    NormalizeRest(Lower(SubSeq(value, 1, len - 3)),
                  UpTo(After(value, len), {"/", "?", "#"}),
                  UpTo(After(value, len + Len(UpTo(After(value, len), {"/", "?", "#"}))), {"#"}))

HttpsPrefix == <<"h","t","t","p","s",":","/","/">>
\* normalize_url(raw)
NormalizeStripped(value) ==
    IF value = <<>> THEN <<>>
    ELSE IF SchemeLength(value, IndexOf(value, ":")) = 0
    THEN NormalizeSchemed(HttpsPrefix \o value, Len(HttpsPrefix))
    ELSE NormalizeSchemed(value, SchemeLength(value, IndexOf(value, ":")))
NormalizeUrl(raw) == NormalizeStripped(Strip(raw, Whitespace))

\* urlparse(url).netloc of a normalized URL
NetlocOf(url) ==
    IF url = <<>> THEN <<>>
    ELSE UpTo(After(url, SchemeLength(url, IndexOf(url, ":"))), {"/", "?", "#"})

\* normalize_domain of a stripped value (ASCII, so the IDNA step changes nothing)
NormalizeCandidate(candidate) ==
    IF candidate = <<>> THEN <<>>
    ELSE IF IndexOf(candidate, "/") > 0
    THEN DropWww(Lower(NetlocOf(NormalizeUrl(candidate))))
    ELSE DropWww(Lower(candidate))

\* normalize_domain(value)
NormalizeDomainOf(value) == NormalizeCandidate(Strip(value, Whitespace))

\* hashlib.sha1(payload).hexdigest(): one digest per payload
Sha1(payload) == <<"#">> \o payload

\* build_company_dedupe_key(name, domain)
DedupeKeyOf(name, canonical_domain) ==
    Sha1(IF canonical_domain # <<>> THEN canonical_domain
         ELSE Lower(Strip(name, Whitespace)))

\* what ingest and the sheet hold for a company: name, canonical_domain,
\* website_url
CompanySources == {
    [name |-> <<"A">>, canonical_domain |-> <<"a",".","r","u">>, website_url |-> <<"h","t","t","p","s",":","/","/","a",".","r","u">>],
    [name |-> <<"A"," ","t","w","o">>, canonical_domain |-> <<>>, website_url |-> <<"H","T","T","P",":","/","/","W","W","W",".","A",".","r","u","/","x">>],
    [name |-> <<" ","B","e","t","a"," ">>, canonical_domain |-> <<>>, website_url |-> <<>>] }

\* domain_source = canonical_domain or website_url or name
DomainSource(row) ==
    IF row.canonical_domain # <<>> THEN row.canonical_domain
    ELSE IF row.website_url # <<>> THEN row.website_url
    ELSE row.name

NormalizeDomainTable ==
    [src \in CompanySources |-> NormalizeDomainOf(DomainSource(src))]
SourceOf(row) ==
    [name |-> row.name, canonical_domain |-> row.canonical_domain,
     website_url |-> row.website_url]
\* normalize_domain(domain_source) for a row; a row whose canonical_domain was
\* refreshed normalizes to it
NormalizeDomain(row) ==
    IF SourceOf(row) \in CompanySources THEN NormalizeDomainTable[SourceOf(row)]
    ELSE NormalizeDomainOf(DomainSource(row))
DedupeKey(row) == DedupeKeyOf(row.name, NormalizeDomain(row))

\* DeduplicationService._refresh_dedupe_hashes, one row
RefreshRow(row) ==
    IF DedupeKey(row) # row.dedupe_hash
    THEN [row EXCEPT !.dedupe_hash = DedupeKey(row),
                     !.canonical_domain = NormalizeDomain(row)]
    ELSE row
RefreshDedupeHashes(rows) == [i \in 1..Len(rows) |-> RefreshRow(rows[i])]

\* sorted(values, key=(created_at, id)): i comes before j
SortsBefore(rows, i, j) ==
    \/ rows[i].created_at < rows[j].created_at
    \/ rows[i].created_at = rows[j].created_at /\ i < j

\* DeduplicationService._group_duplicates: the ids of the rows with a hash
\* that are the first of their group (primary), and the ids of the others
Hashed(rows) == {i \in 1..Len(rows) : Strip(rows[i].dedupe_hash, Whitespace) # <<>>}
PrimaryIds(rows) ==
    {i \in Hashed(rows) :
        \A j \in Hashed(rows) \ {i} :
            rows[j].dedupe_hash = rows[i].dedupe_hash => SortsBefore(rows, i, j)}
DuplicateIds(rows) == Hashed(rows) \ PrimaryIds(rows)

\* DeduplicationService._apply_duplicate_updates: the two UPDATE statements
MarkDuplicate(row) ==
    IF row.status # "duplicate"
    THEN [row EXCEPT !.status = "duplicate", !.opt_out = TRUE]
    ELSE row
MarkPrimary(row) ==
    [row EXCEPT !.status = IF row.status = "duplicate" THEN "new" ELSE row.status,
                !.opt_out = FALSE]
ApplyDuplicateUpdates(rows, primary_ids, duplicate_ids) ==
    [i \in 1..Len(rows) |->
        IF i \in duplicate_ids THEN MarkDuplicate(rows[i])
        ELSE IF i \in primary_ids THEN MarkPrimary(rows[i])
        ELSE rows[i]]

\* DeduplicationService._run_with_session on refreshed rows
RunRefreshed(rows) ==
    ApplyDuplicateUpdates(rows, PrimaryIds(rows), DuplicateIds(rows))

\* DeduplicationStats
RunStats(before, refreshed, after) ==
    [op |-> "run",
     hash_updates |-> Cardinality({i \in 1..Len(before) : refreshed[i] # before[i]}),
     primary_companies |-> Cardinality(PrimaryIds(refreshed)),
     duplicates_marked |-> Cardinality(DuplicateIds(refreshed)),
     updated_records |-> Cardinality({i \in DuplicateIds(refreshed) :
                                          refreshed[i].status # "duplicate"})]

----------------------------------------------------------------------------
(* SpecDedupe: DeduplicationService.run on a companies table in any state. *)

MaxCompanies == 2

\* the rows the table may hold when run starts: the hash not yet computed
\* (a later run finds it up to date), any status and opt_out, created first
\* or second
CompanyRows ==
    {[name |-> src.name, canonical_domain |-> src.canonical_domain,
      website_url |-> src.website_url, dedupe_hash |-> h, status |-> st,
      opt_out |-> o, created_at |-> c] :
        src \in CompanySources, h \in {<<>>}, st \in {"new", "duplicate", "contacts_ready"},
        o \in BOOLEAN, c \in {1, 2}}

NoRun == [op |-> "none", hash_updates |-> 0, primary_companies |-> 0,
          duplicates_marked |-> 0, updated_records |-> 0]

InitDedupe ==
    /\ \E n \in 1..MaxCompanies : companies \in [1..n -> CompanyRows]
    /\ dedupCall = NoRun
    /\ SenderIdle /\ BatchIdle /\ SchedIdle /\ ClientIdle /\ RouterIdle /\ TickIdle /\ PipeIdle

\* DeduplicationService.run in a session of its own
Run(refreshed) ==
    /\ companies' = RunRefreshed(refreshed)
    /\ dedupCall' = RunStats(companies, refreshed, RunRefreshed(refreshed))

DedupRun ==
    /\ Run(RefreshDedupeHashes(companies))
    /\ UNCHANGED <<senderVars, batchVars, schedVars, clientVars, routerVars, tickVars, pipeVars>>

\* ContactEnricher._mark_company_status: the enricher sets a company's status
CompanyEnrich ==
    \E i \in 1..Len(companies), st \in {"contacts_ready", "contacts_not_found"} :
        /\ companies' = [companies EXCEPT ![i].status = st]
        /\ dedupCall' = NoRun
        /\ UNCHANGED <<senderVars, batchVars, schedVars, clientVars, routerVars, tickVars, pipeVars>>

NextDedupe == DedupRun \/ CompanyEnrich
SpecDedupe == InitDedupe /\ [][NextDedupe]_vars

----------------------------------------------------------------------------
(* Sessions that overlap.  PostgreSQL at READ COMMITTED: a statement sees   *)
(* the committed rows and the rows its own session inserted; FOR UPDATE    *)
(* locks the row it returns until the session ends; SKIP LOCKED passes     *)
(* over the rows another session holds locked.                             *)

Procs == {"orchestrator", "worker"}

\* a session: todo are the rows of its batch SELECT still to process,
\* inserted the rows it inserted, locked the ids of the committed rows it
\* holds locked, read the anchors its queue calls computed from
IdleTx == [pc |-> "idle", todo |-> <<>>, inserted |-> <<>>, locked |-> {}, read |-> <<>>]

\* the rows session p sees
Visible(p) == outreach \o tx[p].inserted
\* the committed rows other sessions hold locked
LockedByOthers(p) == UNION {tx[q].locked : q \in Procs \ {p}}
\* the row SELECT_LAST_SCHEDULED_SQL returns to session p (0: none)
LastScheduledIn(p) == LastScheduledId(Visible(p), Ids(Visible(p)), LockedByOthers(p))
\* the row it would return were nothing locked
TopScheduledIn(p) == LastScheduledId(Visible(p), Ids(Visible(p)), {})

\* EmailSender._queue_with_session in the session of p: the SELECT with its
\* lock, then the INSERT; pc is where the caller stands afterwards, and a
\* caller that loops over its batch moves to the next row
QueueInSession(p, pc, contact_id, to_email, given, now_utc, delay, delay2) ==
    /\ tx' = [tx EXCEPT ![p] = [@ EXCEPT
                !.pc = pc,
                !.todo = IF @ = <<>> THEN @ ELSE Tail(@),
                !.inserted = Append(@, QueueRow(contact_id, to_email, given,
                                 ScheduledFor(Visible(p), LastScheduledIn(p)),
                                 now_utc, delay, delay2)),
                !.locked = IF ReadsLast(to_email, given)
                           THEN @ \cup ({LastScheduledIn(p)} \cap Ids(outreach))
                           ELSE @,
                !.read = IF ReadsLast(to_email, given)
                         THEN Append(@, Anchor(ScheduledFor(Visible(p), LastScheduledIn(p)),
                                               now_utc))
                         ELSE @]]
    /\ lastCall' = [NoCall EXCEPT
                       !.op = "queue", !.id = Len(Visible(p)) + 1,
                       !.ret = IF IsValidEmail(CleanEmail(to_email))
                               THEN "scheduled" ELSE "skipped",
                       !.given = (given # Null),
                       !.last = IF ReadsLast(to_email, given)
                                THEN Anchor(ScheduledFor(Visible(p), LastScheduledIn(p)),
                                            now_utc)
                                ELSE Null,
                       !.top = IF ReadsLast(to_email, given)
                               THEN ScheduledFor(Visible(p), TopScheduledIn(p)) ELSE Null]

\* session_scope: commit on return; the inserted rows join the store and the
\* locks are released
CommitSession(p) ==
    /\ outreach' = outreach \o tx[p].inserted
    /\ smtpLog' = smtpLog \o [i \in 1..Len(tx[p].inserted) |-> 0]
    /\ tx' = [tx EXCEPT ![p] = IdleTx]

\* rows stored or inserted by an open session
RowsInFlight == Len(outreach) + Len(tx["orchestrator"].inserted) + Len(tx["worker"].inserted)

----------------------------------------------------------------------------
(* SpecQueues: two processes call queue, each call in a session of its own, *)
(* and the sessions may overlap.                                           *)

MaxQueued == 3

\* 19:40 local: a delay from here passes the end of the window
LateUtc == AsUtc(Combine(1, TimeOfDay(19, 40)))

InitQueues ==
    /\ SenderIdle
    /\ tx = [p \in Procs |-> IdleTx]
    /\ contacts = <<>>
    /\ SchedIdle /\ ClientIdle /\ RestIdle

\* queue() opens its session and runs _queue_with_session
QueueOpen ==
    \E p \in Procs, e \in {AddrPlain, AddrBroken}, n \in {NoonUtc, LateUtc},
       d \in DelaySamples :
        /\ tx[p].pc = "idle"
        /\ RowsInFlight < MaxQueued
        /\ QueueInSession(p, "open", 1, e, Null, n, d, MIN_SEND_DELAY_SECONDS)
        /\ UNCHANGED <<outreach, optOut, sendingEnabled, chanCfg, smtpLog, contacts>>
        /\ UNCHANGED <<schedVars, clientVars, restVars>>

\* queue() returns: its session commits
QueueClose ==
    \E p \in Procs :
        /\ tx[p].pc = "open"
        /\ CommitSession(p)
        /\ UNCHANGED <<optOut, sendingEnabled, chanCfg, lastCall, contacts>>
        /\ UNCHANGED <<schedVars, clientVars, restVars>>

NextQueues == QueueOpen \/ QueueClose
SpecQueues == InitQueues /\ [][NextQueues]_vars

----------------------------------------------------------------------------
(* SpecOutreach: the outreach step (_generate_and_send_emails) run by the   *)
(* orchestrator process and by the worker process on one store.            *)

BatchSize == 2
MaxBatchRows == 4

\* the contacts of type email, in first_seen_at order
ContactValues == <<AddrPlain, AddrBroken, AddrMailto>>

\* SELECT_CONTACTS_FOR_OUTREACH_SQL on the committed rows: the contacts with no
\* scheduled or sent message and no registry entry equal in lower case
EligibleContacts ==
    {c \in 1..Len(contacts) :
        /\ ~\E i \in Ids(outreach) : /\ outreach[i].contact = c
                                     /\ outreach[i].status \in {"sent", "scheduled"}
        /\ ~\E v \in optOut : SqlLower(v) = SqlLower(contacts[c])}

\* ORDER BY ... LIMIT :limit over a set of ids
RECURSIVE FirstOf(_, _)
FirstOf(ids, limit) ==
    IF ids = {} \/ limit = 0 THEN <<>>
    ELSE <<CHOOSE c \in ids : \A d \in ids : c <= d>>
         \o FirstOf(ids \ {CHOOSE c \in ids : \A d \in ids : c <= d}, limit - 1)

SelectContactsForOutreach == FirstOf(EligibleContacts, BatchSize)

\* rows the open sessions have yet to process
RowsToDo == Len(tx["orchestrator"].todo) + Len(tx["worker"].todo)

InitOutreach ==
    /\ outreach = <<>>
    /\ optOut \in {{}, {OptOutUpper}}
    /\ sendingEnabled = TRUE
    /\ chanCfg = [gmail |-> TRUE, yandex |-> TRUE]
    /\ smtpLog = <<>>
    /\ lastCall = NoCall
    /\ tx = [p \in Procs |-> IdleTx]
    /\ contacts = ContactValues
    /\ SchedIdle /\ ClientIdle /\ RestIdle

\* _generate_and_send_emails opens its session and selects its batch
OutreachSelect ==
    \E p \in Procs :
        /\ tx[p].pc = "idle"
        /\ RowsInFlight + RowsToDo + Len(SelectContactsForOutreach) <= MaxBatchRows
        /\ tx' = [tx EXCEPT ![p] = [@ EXCEPT !.pc = "run",
                                             !.todo = SelectContactsForOutreach]]
        /\ UNCHANGED <<senderVars, contacts, schedVars, clientVars, restVars>>

\* EmailSender.send(..., session=session): queues the message in the caller's
\* session
Send(p, contact_id, to_email, now_utc, delay, delay2) ==
    QueueInSession(p, "run", contact_id, to_email, Null, now_utc, delay, delay2)

\* one turn of the loop over the batch
OutreachSend ==
    \E p \in Procs, n \in {NoonUtc, LateUtc}, d \in DelaySamples :
        /\ tx[p].pc = "run"
        /\ tx[p].todo # <<>>
        /\ Send(p, Head(tx[p].todo), contacts[Head(tx[p].todo)], n, d,
                MIN_SEND_DELAY_SECONDS)
        /\ UNCHANGED <<outreach, optOut, sendingEnabled, chanCfg, smtpLog, contacts>>
        /\ UNCHANGED <<schedVars, clientVars, restVars>>

\* the loop is over: session_scope commits
OutreachCommit ==
    \E p \in Procs :
        /\ tx[p].pc = "run"
        /\ tx[p].todo = <<>>
        /\ CommitSession(p)
        /\ UNCHANGED <<optOut, sendingEnabled, chanCfg, lastCall, contacts>>
        /\ UNCHANGED <<schedVars, clientVars, restVars>>

NextOutreach == OutreachSelect \/ OutreachSend \/ OutreachCommit
SpecOutreach == InitOutreach /\ [][NextOutreach]_vars

----------------------------------------------------------------------------
(* SpecLoop: the loops of main.py (run_forever) and worker.py, tick after   *)
(* tick, while the wall clock moves on.  The part of a tick that touches    *)
(* outreach_messages is _generate_and_send_emails.                          *)

\* the instants the loops wake up at: noon and 19:40 of the first day, noon
\* of the second
WallSamples == {NoonUtc, LateUtc, AsUtc(Combine(2, TimeOfDay(12, 0)))}

InitLoop ==
    /\ outreach = <<>>
    /\ optOut = {}
    /\ sendingEnabled = TRUE
    /\ chanCfg = [gmail |-> TRUE, yandex |-> TRUE]
    /\ smtpLog = <<>>
    /\ lastCall = NoCall
    /\ tx = [p \in Procs |-> IdleTx]
    /\ contacts = ContactValues
    /\ wall = NoonUtc
    /\ serpResults = <<>> /\ ingestCall = <<>> /\ fnCall = <<>>
    /\ SchedIdle /\ ClientIdle /\ RouterIdle /\ DedupIdle /\ TickIdle

\* one turn of the loop over the batch, at the time of the tick
LoopSend ==
    \E p \in Procs, d \in DelaySamples :
        /\ tx[p].pc = "run"
        /\ tx[p].todo # <<>>
        /\ Send(p, Head(tx[p].todo), contacts[Head(tx[p].todo)], wall, d,
                MIN_SEND_DELAY_SECONDS)
        /\ UNCHANGED <<outreach, optOut, sendingEnabled, chanCfg, smtpLog, contacts>>
        /\ UNCHANGED <<schedVars, clientVars, restVars>>

\* time.sleep(poll_interval_seconds) between two ticks
LoopSleep ==
    \E t \in WallSamples :
        /\ t > wall
        /\ wall' = t
        /\ UNCHANGED <<serpResults, ingestCall, fnCall>>
        /\ UNCHANGED <<senderVars, batchVars, schedVars, clientVars>>
        /\ UNCHANGED <<routerVars, dedupVars, tickVars>>

NextLoop == OutreachSelect \/ LoopSend \/ OutreachCommit \/ LoopSleep
SpecLoop == InitLoop /\ [][NextLoop]_vars
\* the loops never stop: every step of a tick that can be taken is taken, and
\* time passes
SpecLoopFair ==
    /\ SpecLoop
    /\ WF_vars(OutreachSelect) /\ WF_vars(LoopSend) /\ WF_vars(OutreachCommit)
    /\ WF_vars(LoopSleep)

----------------------------------------------------------------------------
(* SpecSchedule: the schedule step (_schedule_deferred_queries) run by the  *)
(* orchestrator process and by the scheduler process on one store.         *)

SchedProcs == {"orchestrator", "scheduler"}

\* serp_queries: the first two are due, the third is scheduled for later
QueryRows == <<[status |-> "pending", due |-> TRUE],
               [status |-> "pending", due |-> TRUE],
               [status |-> "pending", due |-> FALSE]>>

\* a session of the schedule step: todo the rows of its SELECT still to
\* process, inserted the serp_operations rows it inserted, updated the
\* serp_queries rows it updated and so holds locked, raised the rows whose
\* create_deferred_search raised
IdleStx == [pc |-> "idle", todo |-> <<>>, inserted |-> <<>>, updated |-> {},
            raised |-> {}]

\* SELECT_PENDING_QUERIES_SQL on the committed rows; the statement takes no lock
SelectPendingQueries ==
    FirstOf({q \in 1..Len(queries) : queries[q].status = "pending" /\ queries[q].due},
            BatchSize)

\* the operation id the API answers with: one it has not issued before
NewOperationId == submitted[1] + submitted[2] + submitted[3] + 1

\* a commit that loses the inserted serp_operations rows
InsertNoOperations(rows, new) == rows

\* INSERT_OPERATION_SQL ... ON CONFLICT (operation_id) DO NOTHING
RECURSIVE InsertOperations(_, _)
InsertOperations(rows, new) ==
    IF new = <<>> THEN rows
    ELSE InsertOperations(
             IF \E i \in 1..Len(rows) : rows[i].operation_id = Head(new).operation_id
             THEN rows ELSE Append(rows, Head(new)),
             Tail(new))

InitSchedule ==
    /\ SenderIdle /\ BatchIdle /\ ClientIdle /\ RestIdle
    /\ queries = QueryRows
    /\ operations = <<>>
    /\ stx = [p \in SchedProcs |-> IdleStx]
    /\ submitted = <<0, 0, 0>>

\* _schedule_deferred_queries opens its session and selects its batch
ScheduleSelect ==
    \E p \in SchedProcs :
        /\ stx[p].pc = "idle"
        /\ stx' = [stx EXCEPT ![p] = [@ EXCEPT !.pc = "run", !.todo = SelectPendingQueries]]
        /\ UNCHANGED <<queries, operations, submitted>>
        /\ UNCHANGED <<senderVars, batchVars, clientVars, restVars>>

\* one turn of the loop: create_deferred_search answers and the operation row
\* is inserted
ScheduleSubmit ==
    \E p \in SchedProcs :
        /\ stx[p].pc = "run"
        /\ stx[p].todo # <<>>
        /\ submitted' = [submitted EXCEPT ![Head(stx[p].todo)] = @ + 1]
        /\ stx' = [stx EXCEPT ![p] = [@ EXCEPT
                      !.pc = "update",
                      !.inserted = Append(@, [query |-> Head(stx[p].todo),
                                              operation_id |-> NewOperationId,
                                              status |-> "created"])]]
        /\ UNCHANGED <<queries, operations>>
        /\ UNCHANGED <<senderVars, batchVars, clientVars, restVars>>

\* one turn of the loop: create_deferred_search raises (night window, API
\* error); the exception is logged and the loop goes on
ScheduleRaise ==
    \E p \in SchedProcs :
        /\ stx[p].pc = "run"
        /\ stx[p].todo # <<>>
        /\ stx' = [stx EXCEPT ![p] = [@ EXCEPT !.raised = @ \cup {Head(stx[p].todo)},
                                               !.todo = Tail(@)]]
        /\ UNCHANGED <<queries, operations, submitted>>
        /\ UNCHANGED <<senderVars, batchVars, clientVars, restVars>>

\* UPDATE_QUERY_STATUS_SQL: waits while another session holds the row updated
ScheduleUpdate ==
    \E p \in SchedProcs :
        /\ stx[p].pc = "update"
        /\ \A q \in SchedProcs \ {p} : Head(stx[p].todo) \notin stx[q].updated
        /\ stx' = [stx EXCEPT ![p] = [@ EXCEPT !.pc = "run",
                                               !.updated = @ \cup {Head(stx[p].todo)},
                                               !.todo = Tail(@)]]
        /\ UNCHANGED <<queries, operations, submitted>>
        /\ UNCHANGED <<senderVars, batchVars, clientVars, restVars>>

\* the loop is over: session_scope commits
ScheduleCommit ==
    \E p \in SchedProcs :
        /\ stx[p].pc = "run"
        /\ stx[p].todo = <<>>
        /\ operations' = InsertOperations(operations, stx[p].inserted)
        /\ queries' = [q \in 1..Len(queries) |->
                          IF q \in stx[p].updated
                          THEN [queries[q] EXCEPT !.status = "in_progress"]
                          ELSE queries[q]]
        /\ stx' = [stx EXCEPT ![p] = IdleStx]
        /\ UNCHANGED submitted
        /\ UNCHANGED <<senderVars, batchVars, clientVars, restVars>>

NextSchedule ==
    \/ ScheduleSelect
    \/ ScheduleSubmit
    \/ ScheduleRaise
    \/ ScheduleUpdate
    \/ ScheduleCommit
SpecSchedule == InitSchedule /\ [][NextSchedule]_vars

----------------------------------------------------------------------------
(* SpecClient: one YandexDeferredClient serving create_deferred_search and  *)
(* get_operation calls as its clock moves on.                              *)

MaxCalls == 4

\* RateLimitConfig.build_rules: the windows of the three rules, in seconds
Windows == <<1, 60, 3600>>
\* a RateLimitConfig(per_second, per_minute, per_hour) of small limits
Limits == <<1, 3, 4>>

\* the hour of a local time
HourOf(local) == WallClock(local) \div 3600

\* YandexDeferredClient._ensure_night_window: TRUE when it returns, FALSE when
\* it raises NightWindowViolation
EnsureNightWindowUtc(enforce, now_utc) ==
    ~enforce \/ (0 <= HourOf(now_utc) /\ HourOf(now_utc) < 8)

EnsureNightWindow(enforce, now_utc) ==
    ~enforce \/ (0 <= HourOf(AsLocal(now_utc)) /\ HourOf(AsLocal(now_utc)) < 8)

\* while rule.events and (current_time - rule.events[0]) > rule.window: popleft
RECURSIVE PopExpired(_, _, _)
PopExpired(events, current_time, window) ==
    IF events # <<>> /\ (current_time - Head(events)) > window
    THEN PopExpired(Tail(events), current_time, window)
    ELSE events

\* seconds = max(wait_for.total_seconds(), 0) for the oldest event kept
WaitSeconds(events, current_time, window) ==
    IF (Head(events) + window) - current_time > 0
    THEN (Head(events) + window) - current_time
    ELSE 0

\* one turn of the loop of _respect_limits once the expired events are popped:
\* the sleep, the clock read again, the append
AdmitRule(events, limit, window, current_time) ==
    IF Len(events) >= limit
    THEN [events |-> Append(events, current_time + WaitSeconds(events, current_time, window)),
          now |-> current_time + WaitSeconds(events, current_time, window)]
    ELSE [events |-> Append(events, current_time), now |-> current_time]

\* YandexDeferredClient._respect_limits from rule k on: the queues and the
\* clock when it returns
RECURSIVE RespectLimits(_, _, _)
RECURSIVE RespectNext(_, _, _)
RespectNext(rules, k, admitted) ==
    RespectLimits([rules EXCEPT ![k] = admitted.events], k + 1, admitted.now)
RespectLimits(rules, k, current_time) ==
    IF k > Len(rules) THEN [rules |-> rules, now |-> current_time]
    ELSE RespectNext(rules, k,
             AdmitRule(PopExpired(rules[k], current_time, Windows[k]),
                       Limits[k], Windows[k], current_time))

\* 07:59:58 local on day 1, two seconds before the night window closes
ClockStart == AsUtc(Combine(1, TimeOfDay(7, 59) + 58))
\* the instants at which calls arrive
ClockSamples == {ClockStart + d : d \in {1, 2, 60, 61, 3600, 3601}}

InitClient ==
    /\ SenderIdle /\ BatchIdle /\ SchedIdle /\ RestIdle
    /\ enforceNightWindow \in BOOLEAN
    /\ clock = ClockStart
    /\ createEvents = <<<<>>, <<>>, <<>>>>
    /\ statusEvents = <<<<>>, <<>>, <<>>>>
    /\ httpLog = <<>>
    /\ clientCall = NoClientCall

\* the request goes out once _respect_limits returns; status is the HTTP status
\* class of the answer
HttpRequest(endpoint, admitted, status) ==
    /\ clock' = admitted.now
    /\ httpLog' = Append(httpLog, [endpoint |-> endpoint, at |-> admitted.now])
    /\ clientCall' = [op |-> endpoint, ret |-> status, at |-> clock, n |-> clientCall.n + 1]

\* YandexDeferredClient.create_deferred_search
CreateDeferredSearch ==
    \E status \in {"ok", "YandexAPIError"} :
        /\ clientCall.n < MaxCalls
        /\ IF EnsureNightWindow(enforceNightWindow, clock)
           THEN /\ HttpRequest("create", RespectLimits(createEvents, 1, clock), status)
                /\ createEvents' = RespectLimits(createEvents, 1, clock).rules
           ELSE /\ clientCall' = [op |-> "create", ret |-> "NightWindowViolation",
                                  at |-> clock, n |-> clientCall.n + 1]
                /\ UNCHANGED <<clock, createEvents, httpLog>>
        /\ UNCHANGED <<enforceNightWindow, statusEvents>>
        /\ UNCHANGED <<senderVars, batchVars, schedVars, restVars>>

\* YandexDeferredClient.get_operation
GetOperation ==
    \E status \in {"ok", "YandexAPIError"} :
        /\ clientCall.n < MaxCalls
        /\ HttpRequest("status", RespectLimits(statusEvents, 1, clock), status)
        /\ statusEvents' = RespectLimits(statusEvents, 1, clock).rules
        /\ UNCHANGED <<enforceNightWindow, createEvents>>
        /\ UNCHANGED <<senderVars, batchVars, schedVars, restVars>>

\* time passes between calls
ClockAdvance ==
    \E t \in ClockSamples :
        /\ t > clock
        /\ clock' = t
        /\ UNCHANGED <<enforceNightWindow, createEvents, statusEvents, httpLog, clientCall>>
        /\ UNCHANGED <<senderVars, batchVars, schedVars, restVars>>

NextClient == CreateDeferredSearch \/ GetOperation \/ ClockAdvance
SpecClient == InitClient /\ [][NextClient]_vars

----------------------------------------------------------------------------
(* SpecNormalize: normalize_url on the URLs a SERP document or a sheet may  *)
(* carry.                                                                   *)

UrlSchemes == {<<>>, <<"h","t","t","p",":","/","/">>, <<"H","T","T","P","S",":","/","/">>}
UrlHosts == {<<"a",".","r","u">>, <<"w","w","w",".","a",".","r","u">>, <<"w","w","w",".","w","w","w",".","a",".","r","u">>, <<"A",".","r","u">>}
UrlPorts == {<<>>, <<":","8","0">>, <<":","4","4","3">>, <<":","8","0","8","0">>}
UrlPaths == {<<>>, <<"/">>, <<"/","x">>, <<"/","/","x","/","/","y","/">>}
UrlQueries == {<<>>, <<"?","q","=","1">>}
UrlSamples ==
    {sc \o h \o po \o pa \o qu :
        sc \in UrlSchemes, h \in UrlHosts, po \in UrlPorts, pa \in UrlPaths,
        qu \in UrlQueries}

NoFnCall == [op |-> "none"]

InitNormalize ==
    /\ fnCall = NoFnCall
    /\ wall = 0 /\ serpResults = <<>> /\ ingestCall = <<>>
    /\ SenderIdle /\ BatchIdle /\ SchedIdle /\ ClientIdle
    /\ RouterIdle /\ DedupIdle /\ TickIdle

\* normalize_url(x), and normalize_url of what it returned
NormalizeUrlCall ==
    \E x \in UrlSamples :
        /\ fnCall' = [op |-> "normalize_url", raw |-> x, once |-> NormalizeUrl(x),
                      twice |-> NormalizeUrl(NormalizeUrl(x))]
        /\ UNCHANGED <<wall, serpResults, ingestCall>>
        /\ UNCHANGED <<senderVars, batchVars, schedVars, clientVars>>
        /\ UNCHANGED <<routerVars, dedupVars, tickVars>>

NextNormalize == NormalizeUrlCall
SpecNormalize == InitNormalize /\ [][NextNormalize]_vars

----------------------------------------------------------------------------
(* SERP ingest: parse_serp_xml and SerpIngestService.ingest.  A payload is *)
(* the sequence of its doc elements, each with the text of its url, domain  *)
(* and title children (empty when the child is missing).                    *)

DocAlpha    == [url |-> <<"h","t","t","p","s",":","/","/","a",".","r","u","/","x">>, domain |-> <<"a",".","r","u">>, title |-> <<"A","l","p","h","a">>]
DocAlphaNew == [url |-> <<"h","t","t","p","s",":","/","/","a",".","r","u","/","x">>, domain |-> <<"a",".","r","u">>, title |-> <<"A","l","p","h","a"," ","2">>]
DocAlphaWww == [url |-> <<" ","w","w","w",".","A",".","r","u","/","y"," ">>, domain |-> <<>>, title |-> <<>>]
DocSocial   == [url |-> <<"h","t","t","p","s",":","/","/","v","k",".","c","o","m","/","a","l","p","h","a">>, domain |-> <<"v","k",".","c","o","m">>, title |-> <<"A","l","p","h","a"," ","V","K">>]
DocNoUrl    == [url |-> <<>>, domain |-> <<"a",".","r","u">>, title |-> <<"A","l","p","h","a">>]
DocSamples == {DocAlpha, DocAlphaNew, DocAlphaWww, DocSocial, DocNoUrl}

\* one doc element as parse_serp_xml reads it; position is filled in by the
\* caller
ParseDoc(doc) ==
    [url |-> NormalizeUrl(Strip(doc.url, Whitespace)),
     domain |-> NormalizeDomainOf(IF doc.domain # <<>> THEN doc.domain
                                  ELSE NormalizeUrl(Strip(doc.url, Whitespace))),
     title |-> Strip(IF doc.title # <<>> THEN doc.title
                     ELSE NormalizeDomainOf(IF doc.domain # <<>> THEN doc.domain
                                            ELSE NormalizeUrl(Strip(doc.url, Whitespace))),
                     Whitespace)]
ParseDocTable == [doc \in DocSamples |-> ParseDoc(doc)]

\* parse_serp_xml: the documents with a URL, each with its position in the
\* payload
RECURSIVE ParseFrom(_, _)
ParseFrom(payload, position) ==
    IF position > Len(payload) THEN <<>>
    ELSE IF ParseDocTable[payload[position]].url = <<>> THEN ParseFrom(payload, position + 1)
    ELSE <<[url |-> ParseDocTable[payload[position]].url,
            domain |-> ParseDocTable[payload[position]].domain,
            title |-> ParseDocTable[payload[position]].title,
            position |-> position]>> \o ParseFrom(payload, position + 1)
ParseSerpXml(payload) == ParseFrom(payload, 1)

\* INSERT_SERP_RESULT_SQL: ON CONFLICT (operation_id, url) DO UPDATE
ResultRow(operation_id, document) ==
    [operation_id |-> operation_id, url |-> document.url, domain |-> document.domain,
     title |-> document.title, position |-> document.position]
UpsertResult(results, operation_id, document) ==
    IF \E i \in 1..Len(results) :
           results[i].operation_id = operation_id /\ results[i].url = document.url
    THEN [i \in 1..Len(results) |->
             IF results[i].operation_id = operation_id /\ results[i].url = document.url
             THEN [results[i] EXCEPT !.title = document.title, !.position = document.position]
             ELSE results[i]]
    ELSE Append(results, ResultRow(operation_id, document))

\* UPSERT_COMPANY_SQL with a mistake: a conflict overwrites website_url
UpsertCompanyOverwrite(rows, document, dedupe_hash) ==
    IF \E i \in 1..Len(rows) : rows[i].dedupe_hash = dedupe_hash
    THEN [i \in 1..Len(rows) |->
             IF rows[i].dedupe_hash = dedupe_hash
             THEN [rows[i] EXCEPT !.website_url = document.url]
             ELSE rows[i]]
    ELSE Append(rows, [name |-> IF document.title # <<>> THEN document.title
                                ELSE document.domain,
                       canonical_domain |-> document.domain,
                       website_url |-> document.url,
                       dedupe_hash |-> dedupe_hash,
                       status |-> "new", opt_out |-> FALSE,
                       created_at |-> Len(rows) + 1])
\* UPSERT_COMPANY_SQL: ON CONFLICT (dedupe_hash) DO UPDATE SET website_url =
\* COALESCE(companies.website_url, EXCLUDED.website_url)
UpsertCompany(rows, document, dedupe_hash) ==
    IF \E i \in 1..Len(rows) : rows[i].dedupe_hash = dedupe_hash
    THEN [i \in 1..Len(rows) |->
             IF rows[i].dedupe_hash = dedupe_hash /\ rows[i].website_url = <<>>
             THEN [rows[i] EXCEPT !.website_url = document.url]
             ELSE rows[i]]
    ELSE Append(rows, [name |-> IF document.title # <<>> THEN document.title
                                ELSE document.domain,
                       canonical_domain |-> document.domain,
                       website_url |-> document.url,
                       dedupe_hash |-> dedupe_hash,
                       status |-> "new", opt_out |-> FALSE,
                       created_at |-> Len(rows) + 1])

\* SerpIngestService._ensure_company
EnsureCompany(rows, document) ==
    UpsertCompany(rows, document,
                  DedupeKeyOf(document.title, NormalizeDomainOf(document.domain)))

\* the loop of SerpIngestService.ingest: serp_results, and companies, after it
RECURSIVE IngestResults(_, _, _)
IngestResults(results, operation_id, documents) ==
    IF documents = <<>> THEN results
    ELSE IngestResults(UpsertResult(results, operation_id, Head(documents)),
                       operation_id, Tail(documents))
RECURSIVE IngestCompanies(_, _)
IngestCompanies(rows, documents) ==
    IF documents = <<>> THEN rows
    ELSE IngestCompanies(EnsureCompany(rows, Head(documents)), Tail(documents))

----------------------------------------------------------------------------
(* SpecIngest: ingest calls, the same operation and payload again among     *)
(* them, while the enricher changes the status of companies.                *)

MaxIngests == 3

OperationIds == {"op-1", "op-2"}
\* payloads: one company; the same company with a new title and a social
\* network; the company under its www. address with no domain and no title;
\* a document without a URL and the company
Payloads == {<<DocAlpha>>, <<DocAlphaNew, DocSocial>>, <<DocAlphaWww>>,
             <<DocNoUrl, DocAlpha>>}

NoIngest == [op |-> "none", n |-> 0, operation_id |-> "none", payload |-> <<>>,
             inserted |-> 0, upserts |-> 0, repeat |-> FALSE, seen |-> {}]

InitIngest ==
    /\ serpResults = <<>>
    /\ companies = <<>>
    /\ ingestCall = NoIngest
    /\ dedupCall = NoRun
    /\ wall = 0 /\ fnCall = <<>>
    /\ SenderIdle /\ BatchIdle /\ SchedIdle /\ ClientIdle /\ RouterIdle /\ TickIdle

\* SerpIngestService.ingest(operation_id, xml_payload) in its session_scope
IngestDocuments(operation_id, payload, documents) ==
    /\ serpResults' = IngestResults(serpResults, operation_id, documents)
    /\ companies' = IngestCompanies(companies, documents)
    /\ ingestCall' = [op |-> "ingest", n |-> ingestCall.n + 1,
                      operation_id |-> operation_id, payload |-> payload,
                      inserted |-> Len(documents), upserts |-> Len(documents),
                      repeat |-> <<operation_id, payload>> \in ingestCall.seen,
                      seen |-> ingestCall.seen \cup {<<operation_id, payload>>}]

Ingest ==
    \E operation_id \in OperationIds, payload \in Payloads :
        /\ ingestCall.n < MaxIngests
        /\ IngestDocuments(operation_id, payload, ParseSerpXml(payload))
        /\ UNCHANGED <<dedupCall, wall, fnCall>>
        /\ UNCHANGED <<senderVars, batchVars, schedVars, clientVars, routerVars, tickVars>>

NextIngest == Ingest \/ CompanyEnrich
SpecIngest == InitIngest /\ [][NextIngest]_vars

----------------------------------------------------------------------------
(* SpecWait: YandexDeferredClient.wait_until_ready on a client built with   *)
(* poll_interval_seconds=30 and max_wait_minutes=1.                         *)

PollIntervalSeconds == 30
MaxWaitMinutes == 1
\* self.poll_interval = max(1, poll_interval_seconds)
PollInterval == IF PollIntervalSeconds < 1 THEN 1 ELSE PollIntervalSeconds

\* more polls than any call of this specification may need
MaxPolls == 8

\* interval = poll_interval_seconds or self.poll_interval (0 stands for None)
IntervalOf(poll_interval_seconds) ==
    IF poll_interval_seconds # 0 THEN poll_interval_seconds ELSE PollInterval
\* timedelta(minutes=timeout_minutes) if timeout_minutes else self.max_wait
WaitSecondsOf(timeout_minutes) ==
    IF timeout_minutes # 0 THEN timeout_minutes * 60 ELSE MaxWaitMinutes * 60

\* self._now() > deadline, a mistake
DeadlineAfter(now, deadline) == now > deadline
\* self._now() >= deadline
DeadlineReached(now, deadline) == now >= deadline

\* what poll k answers when the first poll that is not "running" is poll
\* first_end (0: there is none) and answers kind ("done", or "error" for a
\* YandexAPIError out of get_operation)
AnswerOf(k, first_end, kind) == IF k = first_end THEN kind ELSE "running"

\* the while True loop from poll k on; now is the clock before the poll and
\* lag the time get_operation spends waiting for its rate limits.  A loop that
\* needs more than MaxPolls polls is reported as unfinished.
RECURSIVE WaitLoop(_, _, _, _, _, _, _)
WaitLoop(k, now, deadline, interval, lag, first_end, kind) ==
    IF k > MaxPolls THEN [result |-> "unfinished", polls |-> k - 1, now |-> now]
    ELSE IF AnswerOf(k, first_end, kind) = "error"
    THEN [result |-> "YandexAPIError", polls |-> k, now |-> now + lag]
    ELSE IF AnswerOf(k, first_end, kind) = "done"
    THEN [result |-> "returned", polls |-> k, now |-> now + lag]
    ELSE IF DeadlineReached(now + lag, deadline)
    THEN [result |-> "OperationTimeout", polls |-> k, now |-> now + lag]
    ELSE WaitLoop(k + 1, now + lag + interval, deadline, interval, lag, first_end, kind)

\* wait_until_ready(operation_id, poll_interval_seconds=..., timeout_minutes=...)
\* called at clock 0
WaitUntilReady(poll_interval_seconds, timeout_minutes, lag, first_end, kind) ==
    WaitLoop(1, 0, WaitSecondsOf(timeout_minutes), IntervalOf(poll_interval_seconds),
             lag, first_end, kind)

InitWait ==
    /\ fnCall = NoFnCall
    /\ wall = 0 /\ serpResults = <<>> /\ ingestCall = <<>>
    /\ SenderIdle /\ BatchIdle /\ SchedIdle /\ ClientIdle
    /\ RouterIdle /\ DedupIdle /\ TickIdle

WaitUntilReadyCall ==
    \E poll_interval_seconds \in {0, 20, 45}, timeout_minutes \in {0, 2}, lag \in {0, 7},
       first_end \in 0..MaxPolls, kind \in {"done", "error"} :
        /\ first_end = 0 => kind = "done"
        /\ fnCall' = [op |-> "wait_until_ready",
                      interval |-> IntervalOf(poll_interval_seconds),
                      max_wait |-> WaitSecondsOf(timeout_minutes),
                      first_end |-> first_end, kind |-> kind,
                      ret |-> WaitUntilReady(poll_interval_seconds, timeout_minutes,
                                             lag, first_end, kind)]
        /\ UNCHANGED <<wall, serpResults, ingestCall>>
        /\ UNCHANGED <<senderVars, batchVars, schedVars, clientVars>>
        /\ UNCHANGED <<routerVars, dedupVars, tickVars>>

NextWait == WaitUntilReadyCall
SpecWait == InitWait /\ [][NextWait]_vars

----------------------------------------------------------------------------
(* SpecMatch: _classify_uncached on MX answers of one or two exchanges.     *)

\* exchanges as DNS returns them: the large providers, hosts of companies
\* under .ru and .su, and a host that has .ru in the middle of its name
MxExchanges == {
    <<"a","s","p","m","x",".","l",".","g","o","o","g","l","e",".","c","o","m",".">>,
    <<"a","l","t","1",".","a","s","p","m","x",".","l",".","g","o","o","g","l","e",".","c","o","m",".">>,
    <<"M","X",".","Y","a","n","d","e","x",".","n","e","t",".">>,
    <<"m","x","s",".","m","a","i","l",".","r","u",".">>,
    <<"m","x","1",".","m","a","i","l",".","r","u",".">>,
    <<"m","x",".","r","a","m","b","l","e","r",".","r","u",".">>,
    <<"m","a","i","l",".","c","o","m","p","a","n","y",".","r","u",".">>,
    <<"m","x",".","f","i","r","m",".","s","u",".">>,
    <<"m","a","i","l",".","f","i","r","m",".","S","U",".">>,
    <<"m","a","i","l",".","r","u",".","e","x","a","m","p","l","e",".","c","o","m",".">> }
MxAnswers == {[ok |-> TRUE, exchanges |-> x] :
                 x \in {<<e>> : e \in MxExchanges}
                       \cup {<<e, f>> : e \in MxExchanges, f \in MxExchanges}}

InitMatch ==
    /\ fnCall = NoFnCall
    /\ wall = 0 /\ serpResults = <<>> /\ ingestCall = <<>>
    /\ SenderIdle /\ BatchIdle /\ SchedIdle /\ ClientIdle
    /\ RouterIdle /\ DedupIdle /\ TickIdle

\* MXRouter._classify_uncached(domain) when the first resolver answers
ClassifyUncachedCall ==
    \E answer \in MxAnswers :
        /\ fnCall' = [op |-> "classify_uncached",
                      hosts |-> ResolveMx(answer, DnsTimeout).hosts,
                      ret |-> ClassifyResolved(ResolveMx(answer, DnsTimeout))]
        /\ UNCHANGED <<wall, serpResults, ingestCall>>
        /\ UNCHANGED <<senderVars, batchVars, schedVars, clientVars>>
        /\ UNCHANGED <<routerVars, dedupVars, tickVars>>

NextMatch == ClassifyUncachedCall
SpecMatch == InitMatch /\ [][NextMatch]_vars

----------------------------------------------------------------------------
(* QueryGenerator (query_generator.py): the query list of one sheet row    *)
(* and its schedule inside the nightly window. Instants are whole seconds  *)
(* of UTC; the window's zone is Europe/Moscow.                             *)

\* DEFAULT_CONFIG["triggers"]
Triggers == <<"zayavka", "zapis", "stoimost", "predlozhenie", "brif">>
NoTrigger == "None"

\* the loop of _build_queries_texts over available_triggers, with its break
RECURSIVE AppendTriggers(_, _, _)
AppendTriggers(texts, available, max_queries) ==
    IF available = <<>> THEN texts
    ELSE IF Len(texts) + 1 >= max_queries THEN Append(texts, Head(available))
    ELSE AppendTriggers(Append(texts, Head(available)), Tail(available), max_queries)

\* self._triggers[: max(0, self._max_queries - 1)]
AvailableTriggers(max_queries) ==
    SubSeq(Triggers, 1, IF max_queries - 1 < 0 THEN 0
                        ELSE IF max_queries - 1 > Len(Triggers) THEN Len(Triggers)
                        ELSE max_queries - 1)

\* QueryGenerator._build_queries_texts(row): the trigger of each query, the
\* base query (trigger None) first
BuildQueriesTexts(max_queries) ==
    AppendTriggers(<<NoTrigger>>, AvailableTriggers(max_queries), max_queries)

\* self._window_end_local <= self._window_start_local
EndsNextDay(night) == night.end_local <= night.start_local

\* QueryGenerator._window_bounds(reference_date)
WindowBounds(reference_date, night) ==
    [start |-> AsUtc(Combine(reference_date, night.start_local)),
     duration |-> Combine(IF EndsNextDay(night) THEN 1 ELSE 0, night.end_local)
                  - night.start_local]

\* the branches of _next_window_start once start_today and duration are known
NextWindowFrom(now, start_today, duration, night) ==
    IF /\ EndsNextDay(night) /\ now < start_today
       /\ start_today - SecondsPerDay <= now
       /\ now <= start_today - SecondsPerDay + duration
    THEN [start |-> now, end |-> start_today - SecondsPerDay + duration]
    ELSE IF start_today <= now /\ now <= start_today + duration
    THEN [start |-> now, end |-> start_today + duration]
    ELSE IF now < start_today
    THEN [start |-> start_today, end |-> start_today + duration]
    ELSE [start |-> start_today + SecondsPerDay,
          end |-> start_today + SecondsPerDay + duration]

\* QueryGenerator._next_window_start(now); now.date() is the date of the UTC
\* instant
NextWindowStart(now, night) ==
    NextWindowFrom(now, WindowBounds(DateOf(now), night).start,
                   WindowBounds(DateOf(now), night).duration, night)

\* the first loop of generate: one time per query until one passes window_end
RECURSIVE ScheduledTimes(_, _, _, _, _)
ScheduledTimes(times, index, count, window, spacing) ==
    IF index >= count THEN times
    ELSE IF window.start + spacing * index > window.end THEN times
    ELSE ScheduledTimes(Append(times, window.start + spacing * index), index + 1,
                        count, window, spacing)

\* zip(scheduled_times, queries_with_triggers)
ZipQueries(times, triggers) ==
    [i \in 1..(IF Len(times) < Len(triggers) THEN Len(times) ELSE Len(triggers)) |->
        [scheduled_for |-> times[i], trigger |-> triggers[i]]]

\* QueryGenerator.generate(row)
Generate(now, night, spacing, max_queries) ==
    ZipQueries(ScheduledTimes(<<>>, 0, Len(BuildQueriesTexts(max_queries)),
                              NextWindowStart(now, night), spacing),
               BuildQueriesTexts(max_queries))

(* SpecGenerate: generate called with sampled clocks and configurations.   *)

\* DEFAULT_CONFIG["night_window"] and a window that spans local midnight
DefaultNight == [start_local |-> TimeOfDay(0, 0), end_local |-> TimeOfDay(7, 59)]
LateNight == [start_local |-> TimeOfDay(22, 0), end_local |-> TimeOfDay(6, 0)]
NightWindows == {DefaultNight, LateNight}

\* UTC clocks of day 2
GenerateClocks ==
    {Combine(2, TimeOfDay(1, 0)), Combine(2, TimeOfDay(3, 0)),
     Combine(2, TimeOfDay(4, 59)), Combine(2, TimeOfDay(5, 0)),
     Combine(2, TimeOfDay(12, 0)), Combine(2, TimeOfDay(19, 0)),
     Combine(2, TimeOfDay(21, 0)), Combine(2, TimeOfDay(22, 0))}

InitGenerate ==
    /\ fnCall = NoFnCall
    /\ wall = 0 /\ serpResults = <<>> /\ ingestCall = <<>>
    /\ SenderIdle /\ BatchIdle /\ SchedIdle /\ ClientIdle
    /\ RouterIdle /\ DedupIdle /\ TickIdle

GenerateCall ==
    \E now \in GenerateClocks, night \in NightWindows, spacing \in {45, 3600},
       max_queries \in {0, 1, 2, 6} :
        /\ fnCall' = [op |-> "generate", now |-> now, night |-> night,
                      spacing |-> spacing, max_queries |-> max_queries,
                      ret |-> Generate(now, night, spacing, max_queries)]
        /\ UNCHANGED <<wall, serpResults, ingestCall>>
        /\ UNCHANGED <<senderVars, batchVars, schedVars, clientVars>>
        /\ UNCHANGED <<routerVars, dedupVars, tickVars>>

NextGenerate == GenerateCall
SpecGenerate == InitGenerate /\ [][NextGenerate]_vars

----------------------------------------------------------------------------
(* SheetSyncService.sync (sheet_sync.py): one pass over the rows of the    *)
(* sheet. A row carries its cells and what its processing meets: the step  *)
(* of the try block that raises, if any, and whether the log_batch call of *)
(* the except block raises too.                                            *)

\* SheetRowData.get(key): the cell, stripped
Cell(value) == Strip(value, Whitespace)

DoneText == <<"d","o","n","e">>

\* the three `continue` tests of the loop of sync
Skipped(row_data, batch_tag) ==
    \/ Cell(row_data.niche) = <<>>
    \/ batch_tag # <<>> /\ Cell(row_data.batch_tag) # batch_tag
    \/ Lower(Cell(row_data.status)) = DoneText

\* status_value after the try block and its except block
StatusValue(row_data) == IF row_data.raises = "none" THEN "done" ELSE "error"

\* the SheetStatusUpdate appended for a processed row
StatusUpdateOf(row_index, row_data) ==
    [row_index |-> row_index, status |-> StatusValue(row_data)]

\* the loop of sync from row i on; the except block's own log_batch call is
\* outside any try, so its exception leaves sync before update_rows
RECURSIVE SyncFrom(_, _, _, _)
SyncFrom(sheet, i, batch_tag, updates) ==
    IF i > Len(sheet) THEN [result |-> "returned", written |-> updates]
    ELSE IF Skipped(sheet[i], batch_tag)
    THEN SyncFrom(sheet, i + 1, batch_tag, updates)
    ELSE IF sheet[i].raises # "none" /\ sheet[i].log_raises
    THEN [result |-> "raised", written |-> <<>>]
    ELSE SyncFrom(sheet, i + 1, batch_tag, Append(updates, StatusUpdateOf(i, sheet[i])))

\* SheetSyncService.sync(batch_tag=...): what update_rows received
Sync(sheet, batch_tag) == SyncFrom(sheet, 1, batch_tag, <<>>)

(* SpecSync: sync called on sampled sheets.                                *)

MaxSheetRows == 2
TagOne == <<"b","1">>
TagTwo == <<"b","2">>
SheetNiches == {<<>>, <<"n">>}
SheetTags == {TagOne, TagTwo}
SheetStatuses == {<<>>, <<"D","o","n","e"," ">>}
\* generate, insert_queries or the first log_batch raises, or nothing does
RowRaises == {"none", "generate", "insert", "log_batch"}
SheetRowSamples ==
    {r \in [niche : SheetNiches, batch_tag : SheetTags, status : SheetStatuses,
            raises : RowRaises, log_raises : BOOLEAN] :
        /\ r.raises = "none" => ~r.log_raises
        /\ r.niche = <<>> => r.raises = "none" /\ r.status = <<>> /\ r.batch_tag = TagOne}
SheetSamples == UNION {[1..n -> SheetRowSamples] : n \in 1..MaxSheetRows}

InitSync ==
    /\ fnCall = NoFnCall
    /\ wall = 0 /\ serpResults = <<>> /\ ingestCall = <<>>
    /\ SenderIdle /\ BatchIdle /\ SchedIdle /\ ClientIdle
    /\ RouterIdle /\ DedupIdle /\ TickIdle

SyncCall ==
    \E sheet \in SheetSamples, batch_tag \in {<<>>, TagOne} :
        /\ fnCall' = [op |-> "sync", sheet |-> sheet, batch_tag |-> batch_tag,
                      ret |-> Sync(sheet, batch_tag)]
        /\ UNCHANGED <<wall, serpResults, ingestCall>>
        /\ UNCHANGED <<senderVars, batchVars, schedVars, clientVars>>
        /\ UNCHANGED <<routerVars, dedupVars, tickVars>>

NextSync == SyncCall
SpecSync == InitSync /\ [][NextSync]_vars

----------------------------------------------------------------------------
(* The poll step (_poll_operations, _handle_completed_operation): every    *)
(* open operation is asked for once; a finished one is decoded, ingested   *)
(* and its query completed.                                                *)

\* what get_operation meets for one operation: it raises, or the operation is
\* not done, or it is done and its response holds rawData that is base64 of a
\* result XML ("xml") or of something else ("not_xml"), rawData that is not
\* base64 ("undecodable"), no rawData ("missing"), or there is no response but
\* an error field ("error_only")
PollPayloads == {<<DocAlpha>>, <<DocAlphaNew, DocSocial>>}
PollAnswers ==
    {[kind |-> "raises", raw |-> "none", payload |-> <<>>],
     [kind |-> "running", raw |-> "none", payload |-> <<>>]}
    \cup {[kind |-> "done", raw |-> r, payload |-> <<>>] :
             r \in {"not_xml", "undecodable", "missing", "error_only"}}
    \cup {[kind |-> "done", raw |-> "xml", payload |-> x] : x \in PollPayloads}

\* OperationResponse.decode_raw_data returns (TRUE) or raises
\* InvalidResponseError (FALSE)
DecodeRawDataReturns(answer) == answer.raw \in {"xml", "not_xml"}

\* the store the poll session and the ingest sessions write
StoreNow ==
    [operations |-> operations, queries |-> queries, results |-> serpResults,
     companies |-> companies, ingested |-> ingestCall.ingested]

\* UPDATE_OPERATION_STATUS_SQL
UpdateOperationStatus(st, id, status, increment_retry) ==
    [st EXCEPT !.operations[id].status = status,
               !.operations[id].retry_count = @ + increment_retry]

\* _handle_completed_operation when decode_raw_data and ingest return
IngestAndComplete(st, query_id, operation_id, payload) ==
    [st EXCEPT !.results = IngestResults(@, operation_id, ParseSerpXml(payload)),
               !.companies = IngestCompanies(@, ParseSerpXml(payload)),
               !.ingested = @ \cup {operation_id},
               !.queries[query_id].status = "completed"]

\* PipelineOrchestrator._handle_completed_operation; parse_serp_xml raising is
\* dealt with by the caller
HandleCompletedOperation(st, query_id, operation_id, answer) ==
    IF ~DecodeRawDataReturns(answer) THEN st
    ELSE IngestAndComplete(st, query_id, operation_id, answer.payload)

\* one turn of the loop of _poll_operations
PollRow(st, id, answer) ==
    IF answer.kind = "raises" \/ (answer.kind = "done" /\ answer.raw = "not_xml")
    THEN UpdateOperationStatus(st, id, "failed", 1)
    ELSE IF answer.kind = "running"
    THEN UpdateOperationStatus(st, id, "running", 0)
    ELSE UpdateOperationStatus(
             HandleCompletedOperation(st, st.operations[id].query,
                                      st.operations[id].operation_id, answer),
             id, "done", 0)

RECURSIVE PollFrom(_, _, _)
PollFrom(st, todo, answers) ==
    IF todo = <<>> THEN st
    ELSE PollFrom(PollRow(st, Head(todo), answers[Head(todo)]), Tail(todo), answers)

\* SELECT_OPEN_OPERATIONS_SQL
SelectOpenOperations ==
    FirstOf({i \in 1..Len(operations) : operations[i].status \in {"created", "running"}},
            BatchSize)

(* SpecPoll: poll steps on a store with three operations in flight.        *)

OperationNames == <<"op-1", "op-2", "op-3">>
\* the last poll step: the rows it selected, what get_operation met for each,
\* and the operations as it found them
NoPoll == [op |-> "none", ingested |-> {}, polled |-> <<>>, answers |-> <<>>,
           before |-> <<>>]

InitPoll ==
    /\ queries = [q \in 1..3 |-> [status |-> "in_progress", due |-> TRUE]]
    /\ operations = [i \in 1..3 |-> [query |-> i, operation_id |-> OperationNames[i],
                                      status |-> "created", retry_count |-> 0]]
    /\ stx = <<>> /\ submitted = <<>>
    /\ serpResults = <<>>
    /\ companies = <<>>
    /\ ingestCall = NoPoll
    /\ dedupCall = <<>>
    /\ wall = 0 /\ fnCall = <<>>
    /\ SenderIdle /\ BatchIdle /\ ClientIdle /\ RouterIdle /\ TickIdle

\* what a poll step leaves behind
PollWrites(st, answers) ==
    /\ operations' = st.operations
    /\ queries' = st.queries
    /\ serpResults' = st.results
    /\ companies' = st.companies
    /\ ingestCall' = [op |-> "poll", ingested |-> st.ingested,
                      polled |-> SelectOpenOperations,
                      answers |-> [id \in DOMAIN answers |->
                                      [kind |-> answers[id].kind, raw |-> answers[id].raw]],
                      before |-> operations]

\* PipelineOrchestrator._poll_operations in its session_scope
PollOpenOperations ==
    \E answers \in [1..Len(operations) -> PollAnswers] :
        /\ SelectOpenOperations # <<>>
        /\ \A id \in DOMAIN answers \ Range(SelectOpenOperations) :
              answers[id].kind = "running"
        /\ PollWrites(PollFrom(StoreNow, SelectOpenOperations, answers), answers)
        /\ UNCHANGED <<stx, submitted, dedupCall, wall, fnCall>>
        /\ UNCHANGED <<senderVars, batchVars, clientVars, routerVars, tickVars>>

NextPoll == PollOpenOperations
SpecPoll == InitPoll /\ [][NextPoll]_vars

----------------------------------------------------------------------------
(* SpecEnrich: the contact enricher (enrich_contacts.py) on the companies   *)
(* and contacts tables, and the enrich stage of a tick (orchestrator.py).   *)
(* Here contacts holds whole rows; a row's id is its index.                 *)

MaxEnrichClock == 1

DomainA == <<"a",".","r","u">>
DomainB == <<"b",".","r","u">>
\* what the first mailto: link of a site holds after the split on ":" and "?"
NoMail == <<"no mailto">>
MailInfo == <<" ","I","n","f","o","@","A",".","r","u"," ">>
MailSales == <<"s","a","l","e","s","@","a",".","r","u">>
\* a site: its first mailto: link, and the candidate page that shows it
Sites == {[mail |-> NoMail, page |-> "/"], [mail |-> <<>>, page |-> "/"],
          [mail |-> MailInfo, page |-> "/"], [mail |-> MailSales, page |-> "/contact"]}
Suffix(page) == IF page = "/" THEN <<"/">> ELSE <<"/","c","o","n","t","a","c","t">>
LabelOn(page) == IF page = "/" THEN <<"m","a","i","l","t","o">> ELSE <<"W","r","i","t","e">>

\* _normalize_email, computed once for the links of the sites
NormalizeEmailOf(value) == Lower(Strip(value, Whitespace))
NormalizedMails == [v \in {site.mail : site \in Sites} |-> NormalizeEmailOf(v)]
NormalizeEmail(value) == NormalizedMails[value]

\* normalize_url(f"https://{canonical_domain}"), computed once for the domains
BaseUrls == [d \in {DomainA, DomainB} |-> NormalizeUrl(HttpsPrefix \o d)]
BaseUrl(canonical_domain) == BaseUrls[canonical_domain]

\* urljoin(base_url, suffix) for a base URL whose path is "/"
UrlJoin(base_url, suffix) == RStrip(base_url, {"/"}) \o suffix

CompanyA == [canonical_domain |-> DomainA, website_url |-> HttpsPrefix \o DomainA, status |-> "new", homepage_excerpt |-> FALSE, created_at |-> 1]
CompanyB == [canonical_domain |-> DomainB, website_url |-> HttpsPrefix \o DomainB, status |-> "new", homepage_excerpt |-> FALSE, created_at |-> 3]
\* a company found without a domain, with or without a URL
CompanyNoDomain(url) == [canonical_domain |-> <<>>, website_url |-> url, status |-> "new", homepage_excerpt |-> FALSE, created_at |-> 2]

\* INSERT_CONTACT_SQL
UpsertContact(rows, new) ==
    IF \E i \in 1..Len(rows) : rows[i].contact_type = new.contact_type /\ rows[i].value = new.value
    THEN [i \in 1..Len(rows) |->
             IF rows[i].contact_type = new.contact_type /\ rows[i].value = new.value
             THEN [rows[i] EXCEPT !.company_id = new.company_id,
                                  !.source_url = IF new.source_url # None THEN new.source_url ELSE @,
                                  !.quality_score = IF @ >= new.quality_score THEN @ ELSE new.quality_score,
                                  !.last_seen_at = new.last_seen_at,
                                  !.metadata = JsonMerge(@, new.metadata)]
             ELSE rows[i]]
    ELSE Append(rows, new)

\* the row _enrich_with_session hands to INSERT_CONTACT_SQL
ContactRecord(company_id, value, source_url, label, now) ==
    [company_id |-> company_id, contact_type |-> "email", value |-> value,
     source_url |-> source_url, is_primary |-> TRUE, quality_score |-> 100,
     metadata |-> [label |-> label, source_type |-> "email"],
     first_seen_at |-> now, last_seen_at |-> now]

\* _mark_company_status
MarkCompanyStatus(rows, company_id, status) == [rows EXCEPT ![company_id].status = status]
\* _save_homepage_excerpt
SaveHomepageExcerpt(rows, company_id) == [rows EXCEPT ![company_id].homepage_excerpt = TRUE]

\* _enrich_with_session from a base URL: the tables after it, and what it returns
EnrichFound(rows, cts, company_id, base_url, site, now) ==
    IF NormalizeEmail(site.mail) = <<>>
    THEN [companies |-> SaveHomepageExcerpt(rows, company_id), contacts |-> cts, ret |-> <<>>]
    ELSE [companies |-> MarkCompanyStatus(SaveHomepageExcerpt(rows, company_id), company_id, "contacts_ready"),
          contacts |-> UpsertContact(cts, ContactRecord(company_id, NormalizeEmail(site.mail),
                                                        UrlJoin(base_url, Suffix(site.page)),
                                                        LabelOn(site.page), now)),
          ret |-> <<NormalizeEmail(site.mail)>>]

EnrichWithSession(rows, cts, company_id, canonical_domain, site, now) ==
    IF BaseUrl(canonical_domain) = <<>>
    THEN [companies |-> rows, contacts |-> cts, ret |-> <<>>]
    ELSE IF site.mail = NoMail
    THEN [companies |-> MarkCompanyStatus(SaveHomepageExcerpt(rows, company_id), company_id, "contacts_not_found"),
          contacts |-> cts, ret |-> <<>>]
    ELSE EnrichFound(rows, cts, company_id, BaseUrl(canonical_domain), site, now)

\* ContactEnricher.enrich_company(company_id, canonical_domain)
EnrichCompanyOf(rows, cts, company_id, canonical_domain, site, now) ==
    IF Strip(IF canonical_domain = None THEN <<>> ELSE canonical_domain, Whitespace) = <<>>
    THEN [companies |-> rows, contacts |-> cts, ret |-> <<>>]
    ELSE EnrichWithSession(rows, cts, company_id, Strip(canonical_domain, Whitespace), site, now)

\* the parameters of ContactEnricher.enrich_company
EnrichCompanyParameters == {"company_id", "canonical_domain", "session"}
\* binding the arguments of a call: TypeError for a keyword that is no parameter
Binds(keywords, parameters) == keywords \subseteq parameters

\* SELECT_COMPANIES_WITHOUT_CONTACTS_SQL: the ids, by created_at, at most limit
WithoutContacts(rows, cts) ==
    {i \in 1..Len(rows) :
        /\ \A k \in 1..Len(cts) : cts[k].company_id # i
        /\ ~(rows[i].website_url = None /\ rows[i].canonical_domain = None)}
RECURSIVE ByCreatedAt(_, _)
ByCreatedAt(rows, ids) ==
    IF ids = {} THEN <<>>
    ELSE <<CHOOSE i \in ids : \A j \in ids : <<rows[i].created_at, i>> = <<rows[j].created_at, j>> \/ rows[i].created_at < rows[j].created_at \/ (rows[i].created_at = rows[j].created_at /\ i < j)>>
         \o ByCreatedAt(rows, ids \ {CHOOSE i \in ids : \A j \in ids : <<rows[i].created_at, i>> = <<rows[j].created_at, j>> \/ rows[i].created_at < rows[j].created_at \/ (rows[i].created_at = rows[j].created_at /\ i < j)})
SelectCompaniesWithoutContacts(rows, cts, limit) ==
    SubSeq(ByCreatedAt(rows, WithoutContacts(rows, cts)), 1,
           IF Cardinality(WithoutContacts(rows, cts)) < limit
           THEN Cardinality(WithoutContacts(rows, cts)) ELSE limit)

\* the loop of _enrich_missing_contacts over the selected ids, sites what
\* each company's site shows
RECURSIVE EnrichRows(_, _, _, _, _)
EnrichRows(rows, cts, todo, sites, now) ==
    IF todo = <<>> THEN [companies |-> rows, contacts |-> cts]
    ELSE EnrichRows(EnrichCompanyOf(rows, cts, Head(todo), rows[Head(todo)].canonical_domain, sites[Head(todo)], now).companies,
                    EnrichCompanyOf(rows, cts, Head(todo), rows[Head(todo)].canonical_domain, sites[Head(todo)], now).contacts,
                    Tail(todo), sites, now)

NoEnrichStage == [stage |-> "none", pc |-> "run", batch |-> <<>>, passed |-> {}, raised |-> FALSE]

InitEnrich ==
    /\ \E url \in {None, HttpsPrefix \o <<"x",".","r","u">>} :
          companies = <<CompanyA, CompanyNoDomain(url), CompanyB>>
    /\ contacts = <<>>
    /\ tx = <<>>
    /\ wall = 0
    /\ fnCall = NoFnCall
    /\ tickCall = NoEnrichStage
    /\ stageRows = <<>>
    /\ dedupCall = <<>>
    /\ serpResults = <<>> /\ ingestCall = <<>>
    /\ SenderIdle /\ SchedIdle /\ ClientIdle /\ RouterIdle

EnrichFrame == UNCHANGED <<senderVars, tx, schedVars, clientVars, routerVars, dedupCall, stageRows, serpResults, ingestCall>>

\* a call of enrich_company with the company's domain, as a caller with a
\* session of its own makes it
EnrichCompanyCall ==
    \E id \in 1..Len(companies), site \in Sites :
        /\ companies' = EnrichCompanyOf(companies, contacts, id, companies[id].canonical_domain, site, wall).companies
        /\ contacts' = EnrichCompanyOf(companies, contacts, id, companies[id].canonical_domain, site, wall).contacts
        /\ fnCall' = [op |-> "enrich_company", company_id |-> id, site |-> site,
                      ret |-> EnrichCompanyOf(companies, contacts, id, companies[id].canonical_domain, site, wall).ret,
                      existed |-> \E k \in 1..Len(contacts) :
                          contacts[k].value = NormalizeEmail(site.mail)]
        /\ UNCHANGED <<wall, tickCall>>
        /\ EnrichFrame

\* PipelineOrchestrator._enrich_missing_contacts, from SELECT to the end of
\* its session_scope: the call is made with the keywords company_id,
\* website_url and session
EnrichStageWith(batch) ==
    IF batch = <<>> \/ Binds({"company_id", "website_url", "session"}, EnrichCompanyParameters)
    THEN /\ \E sites \in [1..Len(companies) -> Sites] :
              /\ companies' = EnrichRows(companies, contacts, batch, sites, wall).companies
              /\ contacts' = EnrichRows(companies, contacts, batch, sites, wall).contacts
         /\ tickCall' = [stage |-> "enrich", pc |-> "sleep", batch |-> batch,
                         passed |-> {batch[k] : k \in 1..Len(batch)}, raised |-> FALSE]
    ELSE /\ UNCHANGED <<companies, contacts>>
         /\ tickCall' = [stage |-> "enrich", pc |-> "sleep", batch |-> batch,
                         passed |-> {Head(batch)}, raised |-> TRUE]
EnrichStage ==
    /\ tickCall.pc = "run"
    /\ EnrichStageWith(SelectCompaniesWithoutContacts(companies, contacts, BatchSize))
    /\ UNCHANGED <<wall, fnCall>>
    /\ EnrichFrame

\* time.sleep(poll_interval_seconds), and the next tick
EnrichSleep ==
    /\ tickCall.pc = "sleep"
    /\ tickCall' = [tickCall EXCEPT !.pc = "run"]
    /\ UNCHANGED <<companies, contacts, wall, fnCall>>
    /\ EnrichFrame

EnrichClockAdvance ==
    /\ wall < MaxEnrichClock
    /\ wall' = wall + 1
    /\ UNCHANGED <<companies, contacts, tickCall, fnCall>>
    /\ EnrichFrame

NextEnrich == EnrichCompanyCall \/ EnrichStage \/ EnrichSleep \/ EnrichClockAdvance
SpecEnrich == InitEnrich /\ [][NextEnrich]_vars
\* the tick is repeated for ever
SpecEnrichFair == SpecEnrich /\ WF_vars(EnrichStage) /\ WF_vars(EnrichSleep)

----------------------------------------------------------------------------
(* SpecCycle: the schedule step and the poll step of run_once, tick after   *)
(* tick, on a store with two pending queries that are due.                  *)

\* the row INSERT_OPERATION_SQL writes; the API issues a new operation id
NewOperation(query_id, rows) ==
    [query |-> query_id, operation_id |-> Len(rows) + 1, status |-> "created",
     retry_count |-> 0]

\* the loop of _schedule_deferred_queries: outs says for each row whether
\* create_deferred_search answers or raises
RECURSIVE ScheduleFrom(_, _, _)
ScheduleFrom(st, todo, outs) ==
    IF todo = <<>> THEN st
    ELSE IF outs[Head(todo)] = "raise" THEN ScheduleFrom(st, Tail(todo), outs)
    ELSE ScheduleFrom([st EXCEPT !.operations = InsertOperations(@, <<NewOperation(Head(todo), @)>>),
                                 !.queries[Head(todo)].status = "in_progress",
                                 !.submitted[Head(todo)] = @ + 1],
                      Tail(todo), outs)

InitCycle ==
    /\ queries = <<[status |-> "pending", due |-> TRUE], [status |-> "pending", due |-> TRUE]>>
    /\ operations = <<>>
    /\ stx = <<>>
    /\ submitted = <<0, 0>>
    /\ serpResults = <<>>
    /\ companies = <<>>
    /\ ingestCall = NoPoll
    /\ dedupCall = <<>>
    /\ wall = 0 /\ fnCall = <<>>
    /\ stageRows = <<>>
    /\ tickCall = [stage |-> "schedule"]
    /\ SenderIdle /\ BatchIdle /\ ClientIdle /\ RouterIdle

CycleFrame == UNCHANGED <<senderVars, batchVars, clientVars, routerVars, stx, dedupCall, wall, fnCall, stageRows>>

\* PipelineOrchestrator._schedule_deferred_queries in its session_scope
CycleSchedule ==
    /\ tickCall.stage = "schedule"
    /\ \E outs \in [1..Len(queries) -> {"ok", "raise"}] :
          /\ \A q \in DOMAIN outs \ Range(SelectPendingQueries) : outs[q] = "ok"
          /\ operations' = ScheduleFrom([operations |-> operations, queries |-> queries, submitted |-> submitted], SelectPendingQueries, outs).operations
          /\ queries' = ScheduleFrom([operations |-> operations, queries |-> queries, submitted |-> submitted], SelectPendingQueries, outs).queries
          /\ submitted' = ScheduleFrom([operations |-> operations, queries |-> queries, submitted |-> submitted], SelectPendingQueries, outs).submitted
    /\ tickCall' = [stage |-> "poll"]
    /\ UNCHANGED <<serpResults, companies, ingestCall>>
    /\ CycleFrame

\* PipelineOrchestrator._poll_operations in its session_scope
CyclePoll ==
    /\ tickCall.stage = "poll"
    /\ IF SelectOpenOperations = <<>>
       THEN UNCHANGED <<operations, queries, serpResults, companies, ingestCall>>
       ELSE \E answers \in [1..Len(operations) -> PollAnswers] :
               /\ \A id \in DOMAIN answers \ Range(SelectOpenOperations) :
                     answers[id].kind = "running"
               /\ PollWrites(PollFrom(StoreNow, SelectOpenOperations, answers), answers)
    /\ tickCall' = [stage |-> "sleep"]
    /\ UNCHANGED submitted
    /\ CycleFrame

\* time.sleep(poll_interval_seconds), and the next run_once
CycleSleep ==
    /\ tickCall.stage = "sleep"
    /\ tickCall' = [stage |-> "schedule"]
    /\ UNCHANGED <<queries, operations, submitted, serpResults, companies, ingestCall>>
    /\ CycleFrame

NextCycle == CycleSchedule \/ CyclePoll \/ CycleSleep
SpecCycle == InitCycle /\ [][NextCycle]_vars
\* run_forever: every step of every tick is taken
SpecCycleFair ==
    SpecCycle /\ WF_vars(CycleSchedule) /\ WF_vars(CyclePoll) /\ WF_vars(CycleSleep)

----------------------------------------------------------------------------
(* SpecTick: the four batch stages of PipelineOrchestrator.run_once, each  *)
(* in its own session_scope.  A table is the sequence of its rows' states. *)

StageNames == {"schedule", "poll", "enrich", "outreach"}

\* the tables before the first tick: serp_queries that are due,
\* serp_operations, companies, contacts
TickTables == [schedule |-> <<"pending", "pending", "pending">>,
               poll     |-> <<"created", "created", "created">>,
               enrich   |-> <<"new", "new", "new">>,
               outreach |-> <<"new", "new", "new">>]

\* the WHERE clause of the stage's SELECT
Selectable(stage, status) ==
    CASE stage = "schedule" -> status = "pending"
      [] stage = "poll"     -> status \in {"created", "running"}
      [] stage = "enrich"   -> status \in {"new", "contacts_not_found"}
      [] stage = "outreach" -> status = "new"

\* SELECT ... ORDER BY ... LIMIT :limit with limit = batch_size
SelectedIds(stage, rows) == {i \in 1..Len(rows) : Selectable(stage, rows[i])}
StageBatch(stage, rows) ==
    {i \in SelectedIds(stage, rows) :
        Cardinality({j \in SelectedIds(stage, rows) : j < i}) < BatchSize}

\* how the processing of one row can end: what the called service answers,
\* or raise for an exception out of it
StageOutcomes(stage) ==
    CASE stage = "schedule" -> {"created", "raise"}
      [] stage = "poll"     -> {"done", "running", "raise"}
      [] stage = "enrich"   -> {"found", "none", "raise"}
      [] stage = "outreach" -> {"queued", "raise"}

\* the row after the statements of its loop turn
RowEffect(stage, outcome, status) ==
    CASE stage = "schedule" -> IF outcome = "created" THEN "in_progress" ELSE status
      [] stage = "poll"     -> IF outcome = "raise" THEN "failed" ELSE outcome
      [] stage = "enrich"   -> IF outcome = "found" THEN "contacts_ready"
                               ELSE "contacts_not_found"
      [] stage = "outreach" -> "scheduled"

\* the stages whose loop body is a try/except Exception
CatchesRowErrors(stage) == stage \in {"schedule", "poll"}

\* the rows whose loop turn starts: all of them, or in a stage without
\* try/except those up to the first one that raises
TurnsReached(stage, batch, out) ==
    IF CatchesRowErrors(stage) THEN batch
    ELSE {i \in batch : \A j \in batch : j < i => out[j] # "raise"}

\* the exception leaves the loop and session_scope
Propagates(stage, batch, out) ==
    ~CatchesRowErrors(stage) /\ \E i \in batch : out[i] = "raise"

\* session_scope: commit when the block ends, rollback when it raises
StageTable(stage, rows, batch, out) ==
    IF Propagates(stage, batch, out) THEN rows
    ELSE [i \in 1..Len(rows) |->
             IF i \in batch THEN RowEffect(stage, out[i], rows[i]) ELSE rows[i]]

NoStage == [stage |-> "none", batch |-> {}, processed |-> {}, raised |-> {},
            committed |-> FALSE]

InitTick ==
    /\ stageRows = TickTables
    /\ tickCall = NoStage
    /\ SenderIdle /\ BatchIdle /\ SchedIdle /\ ClientIdle /\ RouterIdle /\ DedupIdle /\ PipeIdle

\* one stage from SELECT to the end of its session_scope, out the outcome of
\* each row of the batch
RunStage(stage, batch, out) ==
    /\ stageRows' = [stageRows EXCEPT ![stage] = StageTable(stage, @, batch, out)]
    /\ tickCall' = [stage |-> stage, batch |-> batch,
                    processed |-> TurnsReached(stage, batch, out),
                    raised |-> {i \in TurnsReached(stage, batch, out) : out[i] = "raise"},
                    committed |-> ~Propagates(stage, batch, out)]
    /\ UNCHANGED <<senderVars, batchVars, schedVars, clientVars, routerVars, dedupVars, pipeVars>>

RunStageOn(stage, batch) ==
    \E out \in [batch -> StageOutcomes(stage)] : RunStage(stage, batch, out)

\* PipelineOrchestrator._schedule_deferred_queries
ScheduleDeferredQueries == RunStageOn("schedule", StageBatch("schedule", stageRows.schedule))
\* PipelineOrchestrator._poll_operations
PollOperations == RunStageOn("poll", StageBatch("poll", stageRows.poll))
\* PipelineOrchestrator._enrich_missing_contacts
EnrichMissingContacts == RunStageOn("enrich", StageBatch("enrich", stageRows.enrich))
\* PipelineOrchestrator._generate_and_send_emails
GenerateAndSendEmails == RunStageOn("outreach", StageBatch("outreach", stageRows.outreach))

NextTick ==
    \/ ScheduleDeferredQueries
    \/ PollOperations
    \/ EnrichMissingContacts
    \/ GenerateAndSendEmails
SpecTick == InitTick /\ [][NextTick]_vars

----------------------------------------------------------------------------
(* Properties of the send scheduler, checked under SpecQueue.              *)

InSendWindow(utc) ==
    /\ SEND_WINDOW_START <= WallClock(AsLocal(utc))
    /\ WallClock(AsLocal(utc)) <= SEND_WINDOW_END

\* the last call was a queue call that scheduled a row at a time it computed
QueueComputed ==
    /\ lastCall.op = "queue"
    /\ lastCall.ret = "scheduled"
    /\ ~lastCall.given

----------------------------------------------------------------------------
(* Properties of the sender, checked under SpecSender.                     *)

\* the last event was a deliver call (committed or cut short by a crash)
DeliverCalled == lastCall.op \in {"deliver", "deliver_crash"}

\* the recipient of a row matches a registry entry, compared in lower case
RecipientOptedOut(id) ==
    \E v \in optOut : SqlLower(v) = SqlLower(outreach[id].metadata.to_email)

\* C1: whatever deliver calls are made, repeated ones and ones cut short
\* between the SMTP send and the commit included, the transport accepts a given
\* outreach message at most once.
C1_AtMostOnce == \A i \in Ids(outreach) : smtpLog[i] <= 1

\* C2, as stated: a deliver call for a recipient whose cleaned address matches
\* a registry entry makes no send attempt and leaves the row skipped with
\* last_error 'opt_out'.
C2_OptOutSkipped ==
    (DeliverCalled /\ RecipientOptedOut(lastCall.id)) =>
        /\ lastCall.attempts = <<>>
        /\ outreach[lastCall.id].status = "skipped"
        /\ outreach[lastCall.id].last_error = OPT_OUT

\* C2, amended: a deliver call for a recipient whose cleaned address matches a
\* registry entry makes no send attempt; when sending is enabled, the call
\* falls inside the send window and the address is valid, it returns skipped
\* and leaves the row skipped with last_error 'opt_out'.
C2_OptOutNeverSent ==
    (DeliverCalled /\ RecipientOptedOut(lastCall.id)) =>
        /\ lastCall.attempts = <<>>
        /\ (/\ lastCall.ret \notin {"disabled", "scheduled"}
            /\ IsValidEmail(outreach[lastCall.id].metadata.to_email))
              => /\ lastCall.ret = "skipped"
                 /\ outreach[lastCall.id].status = "skipped"
                 /\ outreach[lastCall.id].last_error = OPT_OUT

\* C2 witness: a message the transport had accepted once is delivered again
\* after the mailbox was entered in the registry in capitals, and is skipped
C2_SkippedAfterLateEntry ==
    /\ lastCall.op = "deliver"
    /\ lastCall.ret = "skipped"
    /\ outreach[lastCall.id].last_error = OPT_OUT
    /\ optOut = {OptOutUpper}
    /\ smtpLog[lastCall.id] = 1

\* C3: once a row is sent, failed or skipped, no queue, deliver or mark_status
\* call changes its status.
C3_TerminalStays ==
    [][\A i \in Ids(outreach) :
          outreach[i].status \in {"sent", "failed", "skipped"}
              => outreach'[i].status = outreach[i].status]_vars

----------------------------------------------------------------------------
(* Properties of overlapping sessions.                                     *)

\* C10, checked under SpecQueues: when queue sessions overlap, no call
\* computes from an anchor older than the greatest scheduled_for in the store,
\* and no two open sessions compute from the same anchor.
C10_ConcurrentAnchors ==
    /\ (lastCall.op = "queue" /\ lastCall.last # Null /\ lastCall.top # Null)
          => lastCall.last >= AsLocal(lastCall.top)
    /\ \A i \in 1..Len(tx["orchestrator"].read), j \in 1..Len(tx["worker"].read) :
          tx["orchestrator"].read[i] # tx["worker"].read[j]

\* C4, checked under SpecOutreach: every contact has at most one message whose
\* status is scheduled or sent.
C4_OneActivePerContact ==
    \A c \in 1..Len(contacts) :
        Cardinality({i \in Ids(outreach) :
                        /\ outreach[i].contact = c
                        /\ outreach[i].status \in {"scheduled", "sent"}}) <= 1

\* C5, checked under SpecSchedule: no query has more than one operation in
\* status created or running, and no pending query is submitted to the
\* deferred search API twice.
C5_OneLiveOperation ==
    \A q \in 1..Len(queries) :
        /\ Cardinality({i \in 1..Len(operations) :
                           /\ operations[i].query = q
                           /\ operations[i].status \in {"created", "running"}}) <= 1
        /\ submitted[q] <= 1

----------------------------------------------------------------------------
(* Properties of the deferred-search client, checked under SpecClient.     *)

\* the requests of an endpoint issued in the interval of length w from t on
IssuedIn(endpoint, t, w) ==
    {j \in 1..Len(httpLog) :
        /\ httpLog[j].endpoint = endpoint
        /\ t <= httpLog[j].at
        /\ httpLog[j].at < t + w}

\* C6: for each rule (limit L, window W) of an endpoint, the calls admitted to
\* the HTTP request within any interval of length W never exceed L.
C6_WithinLimits ==
    \A k \in 1..Len(Limits), i \in 1..Len(httpLog) :
        Cardinality(IssuedIn(httpLog[i].endpoint, httpLog[i].at, Windows[k])) <= Limits[k]

\* the local time of the clock is outside 00:00-07:59
OutsideNight(utc) == WallClock(AsLocal(utc)) >= TimeOfDay(8, 0)

\* C7: with enforce_night_window set, create_deferred_search called at a local
\* hour outside 00:00-07:59 raises NightWindowViolation, issues no HTTP request
\* and adds no timestamp to the create queues; inside the window it goes on to
\* the request; get_operation is admitted at every hour.
C7_NightGate ==
    [][(clientCall'.n # clientCall.n) =>
          /\ (clientCall'.op = "create" /\ enforceNightWindow /\ OutsideNight(clock))
                => /\ clientCall'.ret = "NightWindowViolation"
                   /\ httpLog' = httpLog
                   /\ createEvents' = createEvents
          /\ (clientCall'.op = "create" /\ enforceNightWindow /\ ~OutsideNight(clock))
                => /\ clientCall'.ret # "NightWindowViolation"
                   /\ Len(httpLog') = Len(httpLog) + 1
                   /\ httpLog'[Len(httpLog')].endpoint = "create"
          /\ clientCall'.op = "status"
                => /\ clientCall'.ret # "NightWindowViolation"
                   /\ Len(httpLog') = Len(httpLog) + 1
                   /\ httpLog'[Len(httpLog')].endpoint = "status"]_vars

\* C7 witness: after a create call went out inside the window, a create call
\* at 08:00 local or later was refused and a status call was admitted later
C7_RefusedAfterEight ==
    /\ enforceNightWindow
    /\ clientCall.op = "create"
    /\ clientCall.ret = "NightWindowViolation"
    /\ OutsideNight(clientCall.at)
    /\ \E i \in 1..Len(httpLog) : httpLog[i].endpoint = "create"
    /\ \E i \in 1..Len(httpLog) : httpLog[i].endpoint = "status" /\ OutsideNight(httpLog[i].at)

----------------------------------------------------------------------------
(* Properties of the outreach store and of deliver's guards, checked under  *)
(* SpecSender.                                                             *)

\* C11: after any sequence of queue, deliver and mark_status calls, a row has
\* a sent_at if and only if its status is sent.
C11_SentAtIffSent ==
    \A i \in Ids(outreach) :
        (outreach[i].sent_at # Null) <=> (outreach[i].status = "sent")

\* the local time of a clock reading is outside 09:10-19:45
OutsideSendWindow(utc) == ~InSendWindow(utc)

\* C12: with sending disabled deliver returns 'disabled', and with sending
\* enabled and the local time outside the send window it returns 'scheduled';
\* in both cases the row, the store and the transport's log stay as they were
\* and the call makes no registry lookup, no MX lookup and no send attempt.
C12_GuardsLeaveRow ==
    [][(lastCall'.op = "deliver" /\ lastCall' # lastCall) =>
          /\ ~sendingEnabled => lastCall'.ret = "disabled"
          /\ (sendingEnabled /\ OutsideSendWindow(lastCall'.now))
                => lastCall'.ret = "scheduled"
          /\ (~sendingEnabled \/ OutsideSendWindow(lastCall'.now))
                => /\ outreach' = outreach
                   /\ smtpLog' = smtpLog
                   /\ lastCall'.attempts = <<>>
                   /\ lastCall'.lookups = <<>>]_vars

\* C12 witness: a deliver call at 03:00 local for a valid recipient who is in
\* the registry returned 'scheduled' and the row is still scheduled
C12_LeftScheduledAtNight ==
    /\ lastCall.op = "deliver"
    /\ lastCall.ret = "scheduled"
    /\ lastCall.now = NightUtc
    /\ sendingEnabled
    /\ RecipientOptedOut(lastCall.id)
    /\ outreach[lastCall.id].status = "scheduled"
    /\ outreach[lastCall.id].last_error = None

----------------------------------------------------------------------------
(* Properties of routing and fallback, checked under SpecRoute.            *)

\* the last call was a deliver call that reached the SMTP stage
DeliverAttempted == lastCall.op = "deliver" /\ lastCall.attempts # <<>>

\* C13: with both channels configured, deliver sends through yandex exactly
\* when the MX class is RU and through gmail when it is OTHER or UNKNOWN; a
\* message sent through yandex carries a Reply-To equal to the gmail From
\* header, a message sent through gmail carries no Reply-To.
C13_RoutedWithReplyTo ==
    (DeliverAttempted /\ chanCfg.gmail /\ chanCfg.yandex) =>
        /\ (lastCall.attempts[1].channel = "yandex") <=> (lastCall.mx = "RU")
        /\ (lastCall.attempts[1].channel = "gmail")
              <=> (lastCall.mx \in {"OTHER", "UNKNOWN"})
        /\ \A i \in 1..Len(lastCall.attempts) :
              /\ lastCall.attempts[i].channel = "yandex"
                    => lastCall.attempts[i].message.reply_to = BuildFromHeader("gmail")
              /\ lastCall.attempts[i].channel = "gmail"
                    => lastCall.attempts[i].message.reply_to = None

\* the first attempt of the last deliver call went to yandex and the server
\* refused the message with an error that carries a spam signature
YandexRefusedAsSpam ==
    /\ DeliverAttempted
    /\ lastCall.attempts[1].channel = "yandex"
    /\ lastCall.attempts[1].result \in {"response", "generic"}
    /\ HasSpamToken(lastCall.attempts[1].answer)

\* C14: when yandex refuses the message with an SMTP error that carries a
\* spam signature and gmail is configured, deliver sends again through gmail;
\* if that send succeeds the row is sent, metadata.route has provider gmail and
\* fallback true, and keeps the error yandex answered with.
C14_SpamFallback ==
    (YandexRefusedAsSpam /\ chanCfg.gmail) =>
        /\ Len(lastCall.attempts) = 2
        /\ lastCall.attempts[2].channel = "gmail"
        /\ lastCall.attempts[2].result = "ok" =>
              /\ lastCall.ret = "sent"
              /\ outreach[lastCall.id].status = "sent"
              /\ outreach[lastCall.id].metadata.route.provider = "gmail"
              /\ outreach[lastCall.id].metadata.route.fallback = TRUE
              /\ outreach[lastCall.id].metadata.route.error
                    = ExtractSmtpErrorText(lastCall.attempts[1].answer)

\* C14 witness: yandex answered 5.7.1 Message rejected, gmail accepted
C14_SentOverGmail ==
    /\ YandexRefusedAsSpam
    /\ lastCall.attempts[1].answer = SmtpSpam
    /\ Len(lastCall.attempts) = 2
    /\ lastCall.attempts[2].result = "ok"
    /\ outreach[lastCall.id].status = "sent"
    /\ outreach[lastCall.id].metadata.route.fallback

\* C15: a deliver call makes at most two send attempts, and the second only
\* when the first went to yandex on a route that is not a fallback, gmail is
\* configured and the error was an SMTP error with a spam signature other than
\* an authentication error; an authentication error on the first attempt ends
\* in failed after one attempt, route.provider and route.fallback as routed.
C15_OneRetryAtMost ==
    lastCall.op = "deliver" =>
        /\ Len(lastCall.attempts) <= 2
        /\ Len(lastCall.attempts) = 2 =>
              /\ YandexRefusedAsSpam
              /\ lastCall.mx = "RU" /\ chanCfg.yandex
              /\ chanCfg.gmail
        /\ (DeliverAttempted /\ lastCall.attempts[1].result = "auth") =>
              /\ Len(lastCall.attempts) = 1
              /\ lastCall.ret = "failed"
              /\ outreach[lastCall.id].status = "failed"
              /\ outreach[lastCall.id].sent_at = Null
              /\ outreach[lastCall.id].metadata.route.provider
                    = lastCall.attempts[1].channel
              /\ outreach[lastCall.id].metadata.route.fallback
                    = (lastCall.mx = "RU" /\ ~chanCfg.yandex)

\* C15 witness: yandex refused the login with an answer that carries 5.7.0,
\* gmail is configured, and the call ended in failed after one attempt
C15_AuthFailureNoRetry ==
    /\ DeliverAttempted
    /\ lastCall.attempts[1].channel = "yandex"
    /\ lastCall.attempts[1].answer = SmtpAuth
    /\ HasSpamToken(SmtpAuth)
    /\ chanCfg.gmail
    /\ Len(lastCall.attempts) = 1
    /\ outreach[lastCall.id].status = "failed"

----------------------------------------------------------------------------
(* Properties of the MX router, checked under SpecRouter.                  *)

\* the last call was a classify call with routing enabled
Classified == mxCall.op = "classify" /\ mxEnabled

C17_FailureNotCached ==
    (Classified /\ mxCall.exhausted) =>
        /\ mxCall.classification = "UNKNOWN"
        /\ mxCall.records = <<>>
        /\ CacheIndex(mxCache, MxNormalize(mxCall.domain)) = 0

\* C18: for a domain in force_ru_domains the first classify returns RU, no
\* records and no ttl_hit, the second RU, no records and ttl_hit; neither
\* issues a DNS query.
C18_ForcedDomain ==
    (Classified /\ MxNormalize(mxCall.domain) = ForcedKey) =>
        /\ mxCall.classification = "RU"
        /\ mxCall.records = <<>>
        /\ mxCall.dns = 0
        /\ mxCall.nth = 1 => ~mxCall.ttl_hit
        /\ mxCall.nth = 2 => mxCall.ttl_hit

----------------------------------------------------------------------------
(* Properties of the deduplicator, checked under SpecDedupe.               *)

\* the rows that share the hash of row i
GroupOf(i) == {j \in 1..Len(companies) : companies[j].dedupe_hash = companies[i].dedupe_hash}

\* row i is the smallest of its group by (created_at, id)
FirstOfGroup(i) == \A j \in GroupOf(i) \ {i} : SortsBefore(companies, i, j)

\* C19: after run, from any state of the table, in every group of rows with
\* the same non-empty hash the row smallest by (created_at, id) has a status
\* other than duplicate and opt_out false, and every other row has status
\* duplicate and opt_out true.
C19_OnePrimaryPerGroup ==
    dedupCall.op = "run" =>
        \A i \in 1..Len(companies) :
            companies[i].dedupe_hash # <<>> =>
                IF FirstOfGroup(i)
                THEN companies[i].status # "duplicate" /\ ~companies[i].opt_out
                ELSE companies[i].status = "duplicate" /\ companies[i].opt_out

----------------------------------------------------------------------------
(* Properties of the batch stages, checked under SpecTick.                 *)

\* C20: in each of the four batch stages, when the processing of a row
\* raises, the remaining rows of the batch are still processed and the
\* stage's session is committed, so that the effects applied for the other
\* rows stay.
C20_RowErrorsStayInRow ==
    tickCall.raised # {} =>
        /\ tickCall.processed = tickCall.batch
        /\ tickCall.committed

----------------------------------------------------------------------------
(* Properties of the loops, checked under SpecLoopFair.                    *)

\* message id is stored with status scheduled and its time has arrived
DueForDelivery(id) ==
    /\ id \in Ids(outreach)
    /\ outreach[id].status = "scheduled"
    /\ outreach[id].scheduled_for <= wall

\* message id has left scheduled for sent, failed or skipped
Delivered(id) ==
    /\ id \in Ids(outreach)
    /\ outreach[id].status \in {"sent", "failed", "skipped"}

----------------------------------------------------------------------------
(* Properties of normalize_url, checked under SpecNormalize.               *)

\* C28: normalize_url is idempotent: for every input x,
\* normalize_url(normalize_url(x)) equals normalize_url(x).
C28_NormalizeUrlIdempotent ==
    fnCall.op = "normalize_url" => fnCall.twice = fnCall.once

----------------------------------------------------------------------------
(* Properties of SERP ingest, checked under SpecIngest.                    *)

\* the keys of serp_results
ResultKeys(results) == {<<results[i].operation_id, results[i].url>> : i \in 1..Len(results)}
\* the key, status and website_url of every company
CompanyFacts(rows) ==
    {<<rows[i].dedupe_hash, rows[i].status, rows[i].website_url>> : i \in 1..Len(rows)}

ExcludedDomains == {<<"v","k",".","c","o","m">>, <<"h","h",".","r","u">>}
\* the documents of the payload that have a URL, and those of them whose
\* domain is excluded
WithUrl(payload) == {i \in 1..Len(payload) : ParseDocTable[payload[i]].url # <<>>}
Excluded(payload) ==
    {i \in WithUrl(payload) : ParseDocTable[payload[i]].domain \in ExcludedDomains}

\* C23: for a payload of n documents of which k have a domain of the
\* exclusion set, ingest issues n-k serp_results inserts and n-k company
\* upserts: nothing is stored for an excluded document.
C23_ExcludedDomainsSkipped ==
    ingestCall.op = "ingest" =>
        /\ ingestCall.inserted
               = Cardinality(WithUrl(ingestCall.payload) \ Excluded(ingestCall.payload))
        /\ ingestCall.upserts
               = Cardinality(WithUrl(ingestCall.payload) \ Excluded(ingestCall.payload))
        /\ \A i \in 1..Len(serpResults) : serpResults[i].domain \notin ExcludedDomains

----------------------------------------------------------------------------
(* Properties of wait_until_ready, checked under SpecWait.                 *)

\* ceil(max_wait / interval) + 1
PollBound(max_wait, interval) == ((max_wait + interval - 1) \div interval) + 1

\* the call made at least one poll and at most ceil(max_wait / interval) + 1
WithinPollBound ==
    /\ fnCall.ret.polls >= 1
    /\ fnCall.ret.polls <= PollBound(fnCall.max_wait, fnCall.interval)

\* the call returned at the first poll that reported done
ReturnedAtFirstDone ==
    /\ fnCall.ret.result = "returned"
    /\ fnCall.kind = "done"
    /\ fnCall.ret.polls = fnCall.first_end

\* the call raised OperationTimeout with the clock at or past the deadline
TimedOutAtDeadline ==
    /\ fnCall.ret.result = "OperationTimeout"
    /\ fnCall.ret.now >= fnCall.max_wait
    /\ fnCall.first_end = 0 \/ fnCall.first_end > fnCall.ret.polls

\* C24: wait_until_ready ends after at least one and at most
\* ceil(max_wait / interval) + 1 polls, and it ends in one of two ways: it
\* returns the operation at the first poll that reports done, or it raises
\* OperationTimeout with the clock at or past the deadline.
C24_WaitReturnsOrTimesOut ==
    fnCall.op = "wait_until_ready" =>
        /\ WithinPollBound
        /\ ReturnedAtFirstDone \/ TimedOutAtDeadline

\* C24, with the third way out: as above, or the call ends with the
\* YandexAPIError of the first poll that failed.
C24_WaitEnds ==
    fnCall.op = "wait_until_ready" =>
        /\ WithinPollBound
        /\ \/ ReturnedAtFirstDone
           \/ TimedOutAtDeadline
           \/ /\ fnCall.ret.result = "YandexAPIError"
              /\ fnCall.kind = "error"
              /\ fnCall.ret.polls = fnCall.first_end

\* a call that timed out with its last allowed poll
C24_TimedOutAtLastPoll ==
    /\ fnCall.op = "wait_until_ready"
    /\ fnCall.ret.result = "OperationTimeout"
    /\ fnCall.ret.polls = PollBound(fnCall.max_wait, fnCall.interval)
    /\ fnCall.ret.polls = 7

----------------------------------------------------------------------------
(* Properties of QueryGenerator.generate, checked under SpecGenerate.       *)

\* the nightly window that opens on local day d, as UTC instants
WindowOpen(d, night) == AsUtc(Combine(d, night.start_local))
WindowClose(d, night) ==
    AsUtc(Combine(IF EndsNextDay(night) THEN d + 1 ELSE d, night.end_local))
WindowDays == 0..5
InsideWindow(t, d, night) == WindowOpen(d, night) <= t /\ t <= WindowClose(d, night)
InsideSomeWindow(t, night) == \E d \in WindowDays : InsideWindow(t, d, night)
NextOpening(t, night) ==
    WindowOpen(CHOOSE d \in WindowDays :
                  /\ WindowOpen(d, night) > t
                  /\ \A e \in WindowDays : WindowOpen(e, night) > t => e >= d, night)

AllInOneWindow(ret, night) ==
    \E d \in WindowDays :
        \A i \in 1..Len(ret) : InsideWindow(ret[i].scheduled_for, d, night)

\* C25: generate returns at most max_queries_per_niche queries, for every
\* max_queries_per_niche from 0 upward and for a window spanning midnight, and
\* all returned scheduled_for values lie inside one nightly window.
C25_AtMostMaxQueriesInOneWindow ==
    fnCall.op = "generate" =>
        /\ Len(fnCall.ret) <= fnCall.max_queries
        /\ AllInOneWindow(fnCall.ret, fnCall.night)

\* C26: when the local time of now is inside the nightly window the first
\* scheduled_for equals now, otherwise it equals the next opening of the
\* window; no scheduled_for is earlier than now.
C26_FirstSlotNowOrNextOpening ==
    (fnCall.op = "generate" /\ fnCall.ret # <<>>) =>
        /\ fnCall.ret[1].scheduled_for =
              IF InsideSomeWindow(fnCall.now, fnCall.night) THEN fnCall.now
              ELSE NextOpening(fnCall.now, fnCall.night)
        /\ \A i \in 1..Len(fnCall.ret) : fnCall.ret[i].scheduled_for >= fnCall.now

----------------------------------------------------------------------------
(* Properties of SheetSyncService.sync, checked under SpecSync.             *)

\* a row sync has to work on: niche given, batch_tag as asked, not yet done
Eligible(row_data, batch_tag) ==
    /\ Cell(row_data.niche) # <<>>
    /\ batch_tag = <<>> \/ Cell(row_data.batch_tag) = batch_tag
    /\ Lower(Cell(row_data.status)) # DoneText

UpdatesFor(written, row_index) ==
    {k \in 1..Len(written) : written[k].row_index = row_index}

\* C27: sync writes back exactly one status update for every row with a
\* non-empty niche, the filtered batch_tag and a status other than done, and
\* none for any other row; a row whose generation, insertion or audit log
\* raises is written back as error and the rows after it are still processed
\* and written back.
C27_OneUpdatePerEligibleRow ==
    fnCall.op = "sync" =>
        \A i \in 1..Len(fnCall.sheet) :
            /\ Cardinality(UpdatesFor(fnCall.ret.written, i)) =
                  IF Eligible(fnCall.sheet[i], fnCall.batch_tag) THEN 1 ELSE 0
            /\ \A k \in UpdatesFor(fnCall.ret.written, i) :
                  fnCall.sheet[i].raises # "none" =>
                      fnCall.ret.written[k].status = "error"

----------------------------------------------------------------------------
(* The schedule step and create_deferred_search that raises, checked under  *)
(* SpecSchedule.                                                           *)

\* the serp_operations rows of query q that a step adds
NewOperationsOf(q) ==
    {i \in (Len(operations) + 1)..Len(operations') : operations'[i].query = q}

\* in this step create_deferred_search raised in the session of p
RaisedIn(p) == stx'[p].raised \ stx[p].raised # {}
\* in this step the session of p commits
CommitsIn(p) == stx[p].pc = "run" /\ stx'[p].pc = "idle"

\* C29: a query moves from pending to in_progress only in a step that also
\* inserts a serp_operations row for it; when create_deferred_search raises,
\* nothing is written for the query then or at the commit, the session stays
\* in its loop with the rest of its batch, and it commits only when every row
\* of the batch has been attempted.
C29_InProgressOnlyWithOperation ==
    [][/\ \A q \in 1..Len(queries) :
             (queries[q].status = "pending" /\ queries'[q].status = "in_progress")
                 => NewOperationsOf(q) # {}
       /\ \A p \in SchedProcs :
             /\ RaisedIn(p) =>
                   /\ stx'[p].pc = "run"
                   /\ stx'[p].todo = Tail(stx[p].todo)
                   /\ stx'[p].inserted = stx[p].inserted
                   /\ stx'[p].updated = stx[p].updated
                   /\ queries' = queries /\ operations' = operations
             /\ CommitsIn(p) =>
                   /\ stx[p].todo = <<>>
                   /\ \A q \in stx[p].raised :
                         queries'[q] = queries[q] /\ NewOperationsOf(q) = {}]_vars

\* a session in which the first query of the batch raised and the second was
\* scheduled all the same
C29_RaisedThenScheduled ==
    \E p \in SchedProcs :
        /\ 1 \in stx[p].raised /\ 2 \in stx[p].updated
        /\ \E i \in 1..Len(stx[p].inserted) : stx[p].inserted[i].query = 2

----------------------------------------------------------------------------
(* Properties of the poll step, checked under SpecPoll.                     *)

\* C30: every serp_operation with status done has its query in status
\* completed and its payload ingested, whatever the finished operation
\* carried: a result, a missing or undecodable rawData, or only an error.
C30_DoneMeansIngested ==
    \A i \in 1..Len(operations) :
        operations[i].status = "done" =>
            /\ queries[operations[i].query].status = "completed"
            /\ operations[i].operation_id \in ingestCall.ingested

\* the rows the last poll step selected for which get_operation raised: a
\* non-2xx answer or a transport error
PolledWith(kind) ==
    {id \in Range(ingestCall.polled) : ingestCall.answers[id].kind = kind}
\* rows whose finished payload is not a result XML: parse_serp_xml cannot read it
PolledUnreadable ==
    {id \in PolledWith("done") : ingestCall.answers[id].raw = "not_xml"}

\* C31: an operation whose poll fails with a recoverable error (a non-2xx
\* answer or a transport error) stays created or running with its retry_count
\* as it was; an unrecoverable error sets it to failed with retry_count one
\* higher; either way every other operation of the batch is polled too.
C31_RecoverableErrorsKeepOpen ==
    ingestCall.op = "poll" =>
        /\ \A id \in PolledWith("raises") :
              /\ operations[id].status \in {"created", "running"}
              /\ operations[id].retry_count = ingestCall.before[id].retry_count
        /\ \A id \in PolledUnreadable :
              /\ operations[id].status = "failed"
              /\ operations[id].retry_count = ingestCall.before[id].retry_count + 1
        /\ \A id \in PolledWith("running") : operations[id].status = "running"

----------------------------------------------------------------------------
(* The error persisted when the fallback fails too, checked under SpecRoute. *)

\* the last deliver call went on to gmail after yandex refused the message as
\* spam, and gmail answered with an SMTP error
FallbackFailedToo ==
    /\ YandexRefusedAsSpam
    /\ Len(lastCall.attempts) = 2
    /\ lastCall.attempts[2].result # "ok"

\* C32: when yandex rejects the message as spam and the fallback attempt over
\* gmail fails with an SMTP error too, the row ends in status failed and its
\* metadata.route.error contains the error text of yandex and the error text
\* of the fallback.
C32_ChainedErrorPersisted ==
    FallbackFailedToo =>
        /\ outreach[lastCall.id].status = "failed"
        /\ Contains(outreach[lastCall.id].metadata.route.error,
                    ExtractSmtpErrorText(lastCall.attempts[1].answer))
        /\ Contains(outreach[lastCall.id].metadata.route.error,
                    ExtractSmtpErrorText(lastCall.attempts[2].answer))

----------------------------------------------------------------------------
(* Properties of the MX classification, checked under SpecMatch.            *)

\* the RU top-level domains of the routing configuration
RuTlds == {<<".","r","u">>, <<".","s","u">>}
EndsWith(text, suffix) ==
    /\ Len(text) >= Len(suffix)
    /\ SubSeq(text, Len(text) - Len(suffix) + 1, Len(text)) = suffix
\* some host contains an RU pattern or ends in an RU top-level domain
LooksRu(hosts) ==
    \E i \in 1..Len(hosts) :
        \/ \E pattern \in RuPatterns : Contains(hosts[i], pattern)
        \/ \E tld \in RuTlds : EndsWith(hosts[i], tld)

\* C33: for a non-empty list of resolved MX hosts the classification is RU
\* exactly when some host contains a configured RU pattern or ends in a
\* configured RU top-level domain, and OTHER otherwise.
C33_RuByPatternOrTld ==
    (fnCall.op = "classify_uncached" /\ fnCall.hosts # <<>>) =>
        fnCall.ret.classification = IF LooksRu(fnCall.hosts) THEN "RU" ELSE "OTHER"

----------------------------------------------------------------------------
(* Properties of the TTL cache, checked under SpecCache.                    *)

KeysOf(store) == {store[i].key : i \in 1..Len(store)}
\* the last call was a set that found the cache full of other keys
Overflowed ==
    /\ mxCall.op = "set"
    /\ mxCall.key \notin KeysOf(mxCall.before)
    /\ Len(mxCall.before) >= CacheMaxSize
\* the keys the last call removed
Evicted == KeysOf(mxCall.before) \ KeysOf(mxCache)

\* C34: the cache never holds more than maxsize entries, and a set that
\* overflows it removes exactly one entry: the one whose last use, a write or
\* a read of the live entry, is the oldest.
C34_LeastRecentlyUsedEvicted ==
    /\ Len(mxCache) <= CacheMaxSize
    /\ Cardinality(KeysOf(mxCache)) = Len(mxCache)
    /\ Overflowed =>
          /\ Cardinality(Evicted) = 1
          /\ \A e \in Evicted : \A k \in KeysOf(mxCall.before) :
                mxCall.used[e] <= mxCall.used[k]

\* an overflowing set evicted a key that was written after a surviving key,
\* because the surviving key was read in between
C34_ReadKeptEntry ==
    /\ Overflowed
    /\ \E k \in KeysOf(mxCall.before) \cap KeysOf(mxCache) : mxHist.how[k] = "get"

----------------------------------------------------------------------------
(* Properties of concurrent classify calls, checked under SpecRace.         *)

\* both calls have returned, and they ran within one second: the entry one of
\* them wrote cannot have expired before the other read the cache
BothReturned == mxClock = 0 /\ \A t \in Threads : mxCall[t].pc = "done"

\* C35: when two threads classify the same uncached domain at the same time,
\* both calls return the same classification and the cache ends with one
\* entry that holds it, whatever the DNS answers and the interleaving.
C35_ConcurrentCallsAgree ==
    BothReturned =>
        /\ mxCall["t1"].ret.classification = mxCall["t2"].ret.classification
        /\ Len(mxCache) = 1
        /\ mxCache[1].value.classification = mxCall["t1"].ret.classification

----------------------------------------------------------------------------
(* Properties of the contact enricher, checked under SpecEnrich.            *)

PrimaryEmailsOf(c) ==
    {k \in 1..Len(contacts) :
        contacts[k].company_id = c /\ contacts[k].contact_type = "email" /\ contacts[k].is_primary}

\* C36: after any sequence of enrich_company calls, also repeated calls for
\* one company whose site shows another address the second time, no company
\* has more than one contact of type email with is_primary = true.
C36_OnePrimaryEmailPerCompany ==
    \A c \in 1..Len(companies) : Cardinality(PrimaryEmailsOf(c)) <= 1

\* this step is an enrich_company call that upserts the existing contact k
UpsertsExisting(k) ==
    /\ fnCall'.op = "enrich_company"
    /\ fnCall'.ret # <<>>
    /\ contacts[k].contact_type = "email"
    /\ contacts[k].value = Head(fnCall'.ret)

\* what an upsert leaves alone in an existing row
KeepsOwner(old, new) ==
    /\ new.company_id = old.company_id
    /\ new.is_primary = old.is_primary
    /\ new.contact_type = old.contact_type
    /\ new.value = old.value
    /\ new.first_seen_at = old.first_seen_at
    /\ new.quality_score >= old.quality_score

\* C37: an upsert of a contact whose (contact_type, value) exists changes
\* only source_url, quality_score (to the maximum of old and new),
\* last_seen_at and metadata; company_id and is_primary stay, so enriching
\* one company never takes a contact away from another.
C37_UpsertKeepsOwner ==
    [][\A k \in 1..Len(contacts) :
          UpsertsExisting(k) => KeepsOwner(contacts[k], contacts'[k])]_vars

----------------------------------------------------------------------------
(* Progress of the enrich stage, checked under SpecEnrichFair.              *)

AwaitsEnrichment(c) == c \in WithoutContacts(companies, contacts)
PassedToEnricher(c) == tickCall.stage = "enrich" /\ c \in tickCall.passed

\* C38: under repeated ticks every company that has no contacts and a
\* resolvable URL is eventually passed to the contact enricher (or gets a
\* contact otherwise), also when batch_size or more older companies were
\* enriched without a result and still have no contacts.
C38_EveryCompanyEventuallyEnriched ==
    \A c \in 1..3 : AwaitsEnrichment(c) ~> (PassedToEnricher(c) \/ ~AwaitsEnrichment(c))

----------------------------------------------------------------------------
(* Progress of a query, checked under SpecCycleFair.                        *)

OperationsOf(q) == {i \in 1..Len(operations) : operations[i].query = q}
\* query q is in progress and each of its operations has ended
Ended(q) ==
    /\ queries[q].status = "in_progress"
    /\ OperationsOf(q) # {}
    /\ \A i \in OperationsOf(q) : operations[i].status \in {"failed", "done"}

\* C39: a query that is in_progress with its operations ended, failed or done
\* with whatever payload, does not stay in_progress for ever: it reaches
\* completed, or pending, from where the schedule step submits it again.
C39_EndedQueryLeavesInProgress ==
    \A q \in 1..2 : Ended(q) ~> (queries[q].status \in {"completed", "pending"})

----------------------------------------------------------------------------
(* Growth of outreach_messages under repeated ticks, checked under SpecLoop. *)

\* contact c has a stored message that was skipped or has failed
HasSkippedOrFailed(c) ==
    \E i \in Ids(outreach) : outreach[i].contact = c /\ outreach[i].status \in {"skipped", "failed"}
\* the rows a step adds to outreach_messages
NewOutreachRows == (Len(outreach) + 1)..Len(outreach')

\* C40: with sites, queries and the opt-out registry unchanged, a contact whose
\* address failed validation (a row skipped at queue time) or whose message
\* ended failed or skipped gains no further outreach_messages row in a later
\* tick, so that the table stops growing.
C40_NoNewRowAfterSkipOrFailure ==
    [][\A c \in 1..Len(contacts) :
          HasSkippedOrFailed(c) => \A j \in NewOutreachRows : outreach'[j].contact # c]_vars

====
